---- MODULE Spec2Model ----
(***************************************************************************)
(* Model of the portview ledger pipeline: the amount parser, the ledger    *)
(* adapters, the statement-text scanner and the monthly cashflow           *)
(* aggregator.                                                             *)
(*                                                                         *)
(* Conventions.  A JavaScript string is a sequence of one-character        *)
(* strings, so trim, toUpperCase, startsWith and includes are computed,    *)
(* not assumed.  Money is counted in centavos (integers).  null/undefined  *)
(* is the record Nul; a number n is Num(n).                                *)
(***************************************************************************)
EXTENDS Integers, Sequences, FiniteSets, TLC

VARIABLES
  rows,        \* computeMonthlyCashflow: the `rows` argument
  year,        \* options.year; 0 stands for every falsy value (undefined, 0)
  tz,          \* hours the process timezone is ahead of UTC
  idx,         \* number of rows the for-of loop has consumed
  byMonth,     \* the Map monthIndex -> bucket
  pc,          \* "loop" while iterating, "done" after the return, then "totalled"
  result,      \* the returned array of buckets
  totals,      \* buildCashflowReportModelFromRows: its `totals`
  filename,    \* loadFmsecLedgerRowsFromBuffer: the `filename` argument
  content,     \* what the `buffer` argument holds
  loadPc,      \* "call" before the loader runs, "settled" after
  outcome,     \* the rows the loader returned or the Error it threw
  pdfText,     \* parseFmsecLedgerRowsFromPdfText: the `pdfText` argument
  lines,       \* its `lines`
  li,          \* number of lines the for-of loop has consumed
  scan,        \* its locals currentBlock, rows, debitColIndex, creditColIndex
  pdfPc,       \* "split", "loop", "done"
  pdfOutcome,  \* the rows it returned or the Error it threw
  arg,         \* a call of one of the parsers: the function and its argument
  ret,         \* the value that call returned
  fnPc,        \* "call" before the parser runs, "done" after
  job,         \* a call of renderPdfFromHtml or pdfBufferToText: its arguments
  relPc,       \* the await the call is suspended at, or "settled"
  pending,     \* what the try block (and catch) has produced for the caller
  releases,    \* number of calls of browser.close() / fs.rm(tmpDir) so far
  resource,    \* the browser / temporary directory: "none", "held", "released", "release failed"
  settlement   \* what the call's promise settled with

aggVars == <<rows, year, tz, idx, byMonth, pc, result, totals>>

loadVars == <<filename, content, loadPc, outcome>>

pdfVars == <<pdfText, lines, li, scan, pdfPc, pdfOutcome>>

parseVars == <<arg, ret, fnPc>>

relVars == <<job, relPc, pending, releases, resource, settlement>>

vars == <<aggVars, loadVars, pdfVars, parseVars, relVars>>

-----------------------------------------------------------------------------
(* JavaScript values                                                       *)

Nul == [null |-> TRUE, v |-> 0]

Num(n) == [null |-> FALSE, v |-> n]

\* a ?? b
Coalesce(a, b) == IF a.null THEN b ELSE a

-----------------------------------------------------------------------------
(* Strings                                                                 *)

LowerChars == <<"a","b","c","d","e","f","g","h","i","j","k","l","m","n","o","p","q","r","s","t","u","v","w","x","y","z">>

UpperChars == <<"A","B","C","D","E","F","G","H","I","J","K","L","M","N","O","P","Q","R","S","T","U","V","W","X","Y","Z">>

\* White space as String.prototype.trim and the regex class \s see it;
\* "<u2007>" and "<u202F>" are the figure space and the narrow no-break space.
WhiteSpace == {" ", "\t", "\n", "\r", "\f", "<u2007>", "<u202F>"}

IndexIn(c, alphabet) == CHOOSE i \in 1..Len(alphabet) : alphabet[i] = c

UpperMap == [c \in {LowerChars[i] : i \in 1..26} |-> UpperChars[IndexIn(c, LowerChars)]]

LowerMap == [c \in {UpperChars[i] : i \in 1..26} |-> LowerChars[IndexIn(c, UpperChars)]]

UpperChar(c) == IF c \in DOMAIN UpperMap THEN UpperMap[c] ELSE c

LowerChar(c) == IF c \in DOMAIN LowerMap THEN LowerMap[c] ELSE c

toUpperCase(s) == [i \in 1..Len(s) |-> UpperChar(s[i])]

toLowerCase(s) == [i \in 1..Len(s) |-> LowerChar(s[i])]

RECURSIVE trimStart(_)
trimStart(s) ==
  IF s # <<>> /\ Head(s) \in WhiteSpace THEN trimStart(Tail(s)) ELSE s

RECURSIVE trimEnd(_)
trimEnd(s) ==
  IF s # <<>> /\ s[Len(s)] \in WhiteSpace
    THEN trimEnd(SubSeq(s, 1, Len(s) - 1))
    ELSE s

trim(s) == trimEnd(trimStart(s))

\* s.startsWith(p, from) with from counted from 1
StartsWithAt(s, p, from) ==
  /\ from + Len(p) - 1 <= Len(s)
  /\ SubSeq(s, from, from + Len(p) - 1) = p

startsWith(s, p) == StartsWithAt(s, p, 1)

endsWith(s, p) == Len(p) <= Len(s) /\ StartsWithAt(s, p, Len(s) - Len(p) + 1)

includes(s, p) == \E from \in 1..(Len(s) + 1) : StartsWithAt(s, p, from)

\* s.replace(/[...]/g, '') for a character class
RemoveChars(s, class) == SelectSeq(s, LAMBDA c : c \notin class)

\* texts.join(sep)
RECURSIVE Join(_, _)
Join(texts, sep) ==
  IF texts = <<>> THEN <<>>
  ELSE IF Len(texts) = 1 THEN texts[1]
  ELSE texts[1] \o sep \o Join(Tail(texts), sep)

-----------------------------------------------------------------------------
(* Cells: what a worksheet or a CSV line hands to the coercion step        *)

Undef == [t |-> "undefined", n |-> 0, s |-> <<>>]

NumCell(k) == [t |-> "number", n |-> k, s |-> <<>>]

StrCell(chars) == [t |-> "string", n |-> 0, s |-> chars]

Digits == <<"0","1","2","3","4","5","6","7","8","9">>

IsDigit(c) == \E i \in 1..10 : Digits[i] = c

DigitVal(c) == IndexIn(c, Digits) - 1

RECURSIVE DigitsVal(_)
DigitsVal(s) ==
  IF s = <<>> THEN 0
  ELSE DigitsVal(SubSeq(s, 1, Len(s) - 1)) * 10 + DigitVal(s[Len(s)])

\* Number(s) for the decimal literals [+-]digits[.digits] and [+-].digits, in
\* centavos; Nul is NaN.  Every other text is NaN here (none of the texts this
\* model feeds it is an exponent, a hex literal or "Infinity"); the fraction
\* is read to two digits, which is all the texts of this model carry.
JSNumber(s) ==
  LET signed == s # <<>> /\ Head(s) \in {"-", "+"}
      body   == IF signed THEN Tail(s) ELSE s
      dots   == {i \in 1..Len(body) : body[i] = "."}
      dot    == IF dots = {} THEN Len(body) + 1 ELSE CHOOSE i \in dots : TRUE
      int    == SubSeq(body, 1, dot - 1)
      frac   == SubSeq(body, dot + 1, Len(body))
      frac2  == SubSeq(frac \o <<"0", "0">>, 1, 2)
      wellFormed ==
        /\ Cardinality(dots) <= 1
        /\ \A i \in 1..Len(body) : i \notin dots => IsDigit(body[i])
        /\ Len(int) + Len(frac) >= 1
      mag == DigitsVal(int) * 100 + DigitsVal(frac2)
  IN IF ~wellFormed THEN Nul
     ELSE IF signed /\ Head(s) = "-" THEN Num(-mag) ELSE Num(mag)

parseAmount(value) ==
  IF value.t = "undefined" THEN Nul
  ELSE IF value.t = "number" THEN Num(value.n)
  ELSE
    LET raw      == trim(value.s)
        noSpaces == RemoveChars(raw, WhiteSpace)
        isParenNegative == startsWith(noSpaces, <<"(">>) /\ endsWith(noSpaces, <<")">>)
        stripped == RemoveChars(noSpaces, {"(", ")", ","})
        num      == JSNumber(stripped)
    IN IF raw = <<>> THEN Nul
       ELSE IF raw = <<"-">> \/ noSpaces = <<"-">> THEN Nul
       ELSE IF stripped = <<>> THEN Nul
       ELSE IF num.null THEN Nul
       ELSE IF isParenNegative THEN Num(-num.v) ELSE num

-----------------------------------------------------------------------------
(* Dates: a Date is null, an invalid Date, or an instant given by its UTC  *)
(* calendar fields (month 0..11).                                          *)

NullDate == [kind |-> "null", y |-> 0, mo |-> 0, d |-> 0, h |-> 0]

InvalidDate == [kind |-> "invalid", y |-> 0, mo |-> 0, d |-> 0, h |-> 0]

\* new Date(Date.UTC(y, mo, d, h, 0, 0))
DateUTC(y, mo, d, h) == [kind |-> "date", y |-> y, mo |-> mo, d |-> d, h |-> h]

IsLeap(y) == (y % 4 = 0 /\ y % 100 # 0) \/ y % 400 = 0

DaysInMonth(y, mo) ==
  IF mo = 1 THEN (IF IsLeap(y) THEN 29 ELSE 28)
  ELSE IF mo \in {3, 5, 8, 10} THEN 30 ELSE 31

\* Calendar fields f = [y, mo, d, h] moved by delta hours, -24 < delta < 24.
AddHours(f, delta) ==
  LET hh == f.h + delta
  IN IF hh >= 24 THEN
       IF f.d < DaysInMonth(f.y, f.mo)
         THEN [y |-> f.y, mo |-> f.mo, d |-> f.d + 1, h |-> hh - 24]
       ELSE IF f.mo < 11
         THEN [y |-> f.y, mo |-> f.mo + 1, d |-> 1, h |-> hh - 24]
       ELSE [y |-> f.y + 1, mo |-> 0, d |-> 1, h |-> hh - 24]
     ELSE IF hh < 0 THEN
       IF f.d > 1
         THEN [y |-> f.y, mo |-> f.mo, d |-> f.d - 1, h |-> hh + 24]
       ELSE IF f.mo > 0
         THEN [y |-> f.y, mo |-> f.mo - 1, d |-> DaysInMonth(f.y, f.mo - 1), h |-> hh + 24]
       ELSE [y |-> f.y - 1, mo |-> 11, d |-> 31, h |-> hh + 24]
     ELSE [y |-> f.y, mo |-> f.mo, d |-> f.d, h |-> hh]

\* The calendar fields of the instant in the process timezone (UTC + tz hours).
LocalFields(date) ==
  AddHours([y |-> date.y, mo |-> date.mo, d |-> date.d, h |-> date.h], tz)

\* The instant that is midnight of y-mo-d in the process timezone.
DateLocal(y, mo, d) ==
  LET u == AddHours([y |-> y, mo |-> mo, d |-> d, h |-> 0], 0 - tz)
  IN DateUTC(u.y, u.mo, u.d, u.h)

getFullYear(date) == LocalFields(date).y

getMonth(date) == LocalFields(date).mo

\* date instanceof Date && !Number.isNaN(date.getTime())
IsValidDate(date) == date.kind = "date"

-----------------------------------------------------------------------------
(* parseLedgerDate (fmsecLedgerCsv).  XLSX.SSF.parse_date_code and         *)
(* date-fns parse are libraries; they are modelled by what they compute    *)
(* for whole-day serials and for digit/separator texts.                    *)

\* The calendar date `days` days after 1899-12-30 (proleptic Gregorian).
CivilFromDays(days) ==
  LET z   == days - 25569 + 719468
      era == z \div 146097
      doe == z - era * 146097
      yoe == (doe - (doe \div 1460) + (doe \div 36524) - (doe \div 146096)) \div 365
      doy == doe - (365 * yoe + (yoe \div 4) - (yoe \div 100))
      mp  == (5 * doy + 2) \div 153
      d   == doy - ((153 * mp + 2) \div 5) + 1
      m   == IF mp < 10 THEN mp + 3 ELSE mp - 9
      y   == yoe + era * 400 + (IF m <= 2 THEN 1 ELSE 0)
  IN [y |-> y, m |-> m, d |-> d]

\* XLSX.SSF.parse_date_code(v) for v given in hundredths: [ok, y, m, d].  The
\* 1900 date system: serial 60 is the non-existent 1900-02-29, serial 0 has
\* d = 0.
parse_date_code(hundredths) ==
  LET date == hundredths \div 100
  IN IF hundredths < 0 \/ date > 2958465 THEN [ok |-> FALSE, y |-> 0, m |-> 0, d |-> 0]
     ELSE IF date = 60 THEN [ok |-> TRUE, y |-> 1900, m |-> 2, d |-> 29]
     ELSE IF date = 0 THEN [ok |-> TRUE, y |-> 1900, m |-> 1, d |-> 0]
     ELSE LET c == CivilFromDays(IF date > 60 THEN date ELSE date + 1)
          IN [ok |-> TRUE, y |-> c.y, m |-> c.m, d |-> c.d]

\* if (dc && dc.y && dc.m && dc.d) return new Date(Date.UTC(dc.y, dc.m - 1, dc.d, 12, 0, 0))
DateFromSerial(hundredths) ==
  LET dc == parse_date_code(hundredths)
  IN IF dc.ok /\ dc.y # 0 /\ dc.m # 0 /\ dc.d # 0
       THEN DateUTC(dc.y, dc.m - 1, dc.d, 12)
       ELSE NullDate

\* Length of the longest prefix of s made of at most n digits.
DigitRun(s, n) ==
  LET ks == {k \in 0..n : k <= Len(s) /\ \A i \in 1..k : IsDigit(s[i])}
  IN CHOOSE k \in ks : \A j \in ks : j <= k

\* Characters a date-fns token consumes at the head of s; 0 when it fails.
\*   d    /^(3[0-1]|[0-2]?\d)/      M    /^(1[0-2]|0?\d)/
\*   dd, MM  /^\d{1,2}/             yyyy /^\d{1,4}/
TokenLength(token, s) ==
  IF token = "d" THEN
    IF Len(s) >= 2 /\ s[1] = "3" /\ s[2] \in {"0", "1"} THEN 2
    ELSE IF Len(s) >= 2 /\ s[1] \in {"0", "1", "2"} /\ IsDigit(s[2]) THEN 2
    ELSE DigitRun(s, 1)
  ELSE IF token = "M" THEN
    IF Len(s) >= 2 /\ s[1] = "1" /\ s[2] \in {"0", "1", "2"} THEN 2
    ELSE IF Len(s) >= 2 /\ s[1] = "0" /\ IsDigit(s[2]) THEN 2
    ELSE DigitRun(s, 1)
  ELSE IF token = "yyyy" THEN DigitRun(s, 4)
  ELSE DigitRun(s, 2)

\* The six layouts of parseLedgerDate, in the order they are tried.
DatePatterns_MonthFirst ==
  << [first |-> "M",  second |-> "d",  sep |-> "/", dayFirst |-> FALSE],
     [first |-> "MM", second |-> "dd", sep |-> "/", dayFirst |-> FALSE],
     [first |-> "d",  second |-> "M",  sep |-> "/", dayFirst |-> TRUE],
     [first |-> "dd", second |-> "MM", sep |-> "/", dayFirst |-> TRUE],
     [first |-> "d",  second |-> "M",  sep |-> "-", dayFirst |-> TRUE],
     [first |-> "dd", second |-> "MM", sep |-> "-", dayFirst |-> TRUE] >>

DatePatterns ==
  << [first |-> "d",  second |-> "M",  sep |-> "/", dayFirst |-> TRUE],
     [first |-> "dd", second |-> "MM", sep |-> "/", dayFirst |-> TRUE],
     [first |-> "M",  second |-> "d",  sep |-> "/", dayFirst |-> FALSE],
     [first |-> "MM", second |-> "dd", sep |-> "/", dayFirst |-> FALSE],
     [first |-> "d",  second |-> "M",  sep |-> "-", dayFirst |-> TRUE],
     [first |-> "dd", second |-> "MM", sep |-> "-", dayFirst |-> TRUE] >>

\* parse(raw, pattern, new Date()): the date at local midnight, or an invalid
\* Date.  Tokens are consumed left to right without backtracking; the year
\* must be positive, the month 1..12, the day within the month.
ParseWithPattern(raw, pat) ==
  LET n1 == TokenLength(pat.first, raw)
      r1 == SubSeq(raw, n1 + 1, Len(raw))
      r2 == SubSeq(r1, 2, Len(r1))
      n2 == TokenLength(pat.second, r2)
      r3 == SubSeq(r2, n2 + 1, Len(r2))
      r4 == SubSeq(r3, 2, Len(r3))
      n3 == TokenLength("yyyy", r4)
      shaped ==
        /\ n1 > 0 /\ r1 # <<>> /\ Head(r1) = pat.sep
        /\ n2 > 0 /\ r3 # <<>> /\ Head(r3) = pat.sep
        /\ n3 > 0 /\ Len(r4) = n3
      v1 == DigitsVal(SubSeq(raw, 1, n1))
      v2 == DigitsVal(SubSeq(r2, 1, n2))
      yy == DigitsVal(r4)
      day == IF pat.dayFirst THEN v1 ELSE v2
      month == IF pat.dayFirst THEN v2 ELSE v1
  IN IF shaped /\ yy > 0 /\ month \in 1..12 /\ day >= 1 /\ day <= DaysInMonth(yy, month - 1)
       THEN DateLocal(yy, month - 1, day)
       ELSE InvalidDate

RECURSIVE FirstValidPattern(_, _)
FirstValidPattern(raw, k) ==
  IF k > Len(DatePatterns) THEN NullDate
  ELSE LET dt == ParseWithPattern(raw, DatePatterns[k])
       IN IF IsValidDate(dt) THEN dt ELSE FirstValidPattern(raw, k + 1)

\* /^\d+(\.\d+)?$/
IsNumericText(s) ==
  LET n == Len(s)
      dots == {i \in 1..n : s[i] = "."}
  IN /\ n > 0
     /\ \A i \in 1..n : i \notin dots => IsDigit(s[i])
     /\ Cardinality(dots) <= 1
     /\ \A i \in dots : i > 1 /\ i < n

\* Cells are undefined, numbers or strings; no cell of this model is a Date
\* object, so the `instanceof Date` shortcut is not taken.
parseLedgerDate(value) ==
  IF value.t = "undefined" THEN NullDate
  ELSE IF value.t = "number" THEN
    (IF value.n = 0 THEN NullDate ELSE DateFromSerial(value.n))
  ELSE
    LET raw == trim(value.s)
        serial == IF IsNumericText(raw) THEN DateFromSerial(JSNumber(raw).v) ELSE NullDate
    IN IF value.s = <<>> \/ raw = <<>> THEN NullDate
       ELSE IF IsValidDate(serial) THEN serial
       ELSE FirstValidPattern(raw, 1)

-----------------------------------------------------------------------------
(* fmsecLedgerCsv: header cells, row objects, coerceLedgerRow              *)

RECURSIVE NatText(_)
NatText(n) ==
  IF n < 10 THEN <<Digits[n + 1]>> ELSE NatText(n \div 10) \o <<Digits[(n % 10) + 1]>>

\* String(n) for a number held in hundredths
NumberText(k) ==
  LET mag  == IF k < 0 THEN 0 - k ELSE k
      sign == IF k < 0 THEN <<"-">> ELSE <<>>
      frac == mag % 100
  IN sign \o NatText(mag \div 100)
       \o (IF frac = 0 THEN <<>>
           ELSE IF frac % 10 = 0 THEN <<".", Digits[(frac \div 10) + 1]>>
           ELSE <<".", Digits[(frac \div 10) + 1], Digits[(frac % 10) + 1]>>)

\* String(value ?? '')
JSString(value) ==
  IF value.t = "undefined" THEN <<>>
  ELSE IF value.t = "number" THEN NumberText(value.n)
  ELSE value.s

\* s.replace(/\s+/g, rep)
RECURSIVE ReplaceSpaceRuns(_, _)
ReplaceSpaceRuns(s, rep) ==
  IF s = <<>> THEN <<>>
  ELSE IF Head(s) \in WhiteSpace
    THEN rep \o ReplaceSpaceRuns(trimStart(s), rep)
    ELSE <<Head(s)>> \o ReplaceSpaceRuns(Tail(s), rep)

\* s.replace(/__+/g, '_')
RECURSIVE CollapseUnderscores(_)
CollapseUnderscores(s) ==
  IF Len(s) < 2 THEN s
  ELSE IF s[1] = "_" /\ s[2] = "_" THEN CollapseUnderscores(Tail(s))
  ELSE <<Head(s)>> \o CollapseUnderscores(Tail(s))

normalizeHeaderCell(value) ==
  LET raw == trim(JSString(value))
      upper == toUpperCase(ReplaceSpaceRuns(raw, <<" ">>))
  IN IF raw = <<>> THEN <<>>
     ELSE IF upper = <<"P","H","P"," ","D"," ","E"," ","B"," ","I"," ","T">>
       THEN <<"P","H","P","_","D","E","B","I","T">>
     ELSE IF upper = <<"P","H","P"," ","C"," ","R"," ","E"," ","D"," ","I"," ","T">>
       THEN <<"P","H","P","_","C","R","E","D","I","T">>
     ELSE CollapseUnderscores(ReplaceSpaceRuns(RemoveChars(upper, {"."}), <<"_">>))

\* The object built from a data row: obj[key] = r[c] for every column c with a
\* non-empty key, a later column overwriting an earlier one of the same key.
RowObject(headerRow, r) ==
  LET cols == {c \in 1..Len(headerRow) : headerRow[c] # <<>>}
  IN [key \in {headerRow[c] : c \in cols} |->
        LET last == CHOOSE c \in cols : headerRow[c] = key /\ \A e \in cols : headerRow[e] = key => e <= c
        IN IF last <= Len(r) THEN r[last] ELSE Undef]

\* rawRow[key], undefined when the object has no such key
Field(rawRow, key) == IF key \in DOMAIN rawRow THEN rawRow[key] ELSE Undef

\* a ?? b on cells
CellCoalesce(a, b) == IF a.t = "undefined" THEN b ELSE a

coerceLedgerRow(rawRow) ==
  [ CD |-> trim(JSString(Field(rawRow, <<"C","D">>))),
    NUMBER |-> trim(JSString(Field(rawRow, <<"N","U","M","B","E","R">>))),
    DATE |-> parseLedgerDate(Field(rawRow, <<"D","A","T","E">>)),
    DUE_DATE |-> parseLedgerDate(Field(rawRow, <<"D","U","E","_","D","A","T","E">>)),
    PARTICULARS |-> trim(JSString(Field(rawRow, <<"P","A","R","T","I","C","U","L","A","R","S">>))),
    SECURITY |-> trim(JSString(Field(rawRow, <<"S","E","C","U","R","I","T","Y">>))),
    NO_OF_SHARES |->
      parseAmount(CellCoalesce(Field(rawRow, <<"N","O",".","_","O","F","_","S","H","A","R","E","S">>),
                  CellCoalesce(Field(rawRow, <<"N","O","_","O","F","_","S","H","A","R","E","S">>),
                               Field(rawRow, <<"N","O","_","O","f","_","S","H","A","R","E","S">>)))),
    CURRENCY |-> trim(JSString(Field(rawRow, <<"C","U","R","R","E","N","C","Y">>))),
    UNIT_PRICE |-> parseAmount(Field(rawRow, <<"U","N","I","T","_","P","R","I","C","E">>)),
    FX_AMT |-> parseAmount(Field(rawRow, <<"F","X","_","A","M","T">>)),
    FX_RUNNING_BAL |-> parseAmount(Field(rawRow, <<"F","X","_","R","U","N","N","I","N","G","_","B","A","L">>)),
    PHP_DEBIT |-> parseAmount(Field(rawRow, <<"P","H","P","_","D","E","B","I","T">>)),
    PHP_CREDIT |-> parseAmount(Field(rawRow, <<"P","H","P","_","C","R","E","D","I","T">>)),
    PHP_RUNNING_BAL |-> parseAmount(Field(rawRow, <<"P","H","P","_","R","U","N","N","I","N","G","_","B","A","L">>)) ]

\* What a call gives back: the rows it returns or the Error it throws.
Returned(rs) == [threw |-> FALSE, message |-> "", missing |-> <<>>, rows |-> rs]

Thrown(msg, names) == [threw |-> TRUE, message |-> msg, missing |-> names, rows |-> <<>>]

\* The position of the first element of s satisfying the test given as the set
\* of positions that satisfy it; 0 for findIndex's -1.
FirstOf(hits) == IF hits = {} THEN 0 ELSE CHOOSE i \in hits : \A j \in hits : i <= j

RECURSIVE DataRowsFrom(_, _, _)
DataRowsFrom(headerRow, table, i) ==
  IF i > Len(table) THEN <<>>
  ELSE LET obj == RowObject(headerRow, table[i])
       IN (IF table[i] = <<>> \/ trim(JSString(Field(obj, <<"C","D">>))) = <<>>
             THEN <<>>
             ELSE <<coerceLedgerRow(obj)>>)
          \o DataRowsFrom(headerRow, table, i + 1)

\* `table` is what XLSX.utils.sheet_to_json(worksheet, {header: 1, raw: true})
\* yields: the sheet's rows as arrays of raw cell values.
parseLedgerRowsFromWorksheet(table) ==
  LET headerIndex ==
        FirstOf({i \in 1..Len(table) :
                   \E c \in 1..Len(table[i]) : toUpperCase(trim(JSString(table[i][c]))) = <<"C","D">>})
  IN IF table = <<>> THEN Returned(<<>>)
     ELSE IF headerIndex = 0
       THEN Thrown("Could not find header row (CD, NUMBER, DATE, ...) in CSV", <<>>)
     ELSE Returned(DataRowsFrom([c \in 1..Len(table[headerIndex]) |-> normalizeHeaderCell(table[headerIndex][c])],
                                table, headerIndex + 1))

RequiredColumns == <<"CD", "DATE", "PARTICULARS", "PHP_DEBIT", "PHP_CREDIT">>

\* required.filter((k) => !(k in sample))
RECURSIVE MissingFrom(_, _)
MissingFrom(required, sample) ==
  IF required = <<>> THEN <<>>
  ELSE (IF Head(required) \in DOMAIN sample THEN <<>> ELSE <<Head(required)>>)
       \o MissingFrom(Tail(required), sample)

validateFmsecLedgerHeaders_AcceptsEmpty(rs) ==
  IF rs = <<>> THEN Returned(rs)
  ELSE LET missing == MissingFrom(RequiredColumns, rs[1])
       IN IF missing # <<>> THEN Thrown("Missing required columns", missing)
          ELSE Returned(rs)

\* validateFmsecLedgerHeaders(rs): the Error it throws, or Returned(rs) when it
\* returns normally.
validateFmsecLedgerHeaders(rs) ==
  IF rs = <<>> THEN Thrown("No ledger rows found", <<>>)
  ELSE LET missing == MissingFrom(RequiredColumns, rs[1])
       IN IF missing # <<>> THEN Thrown("Missing required columns", missing)
          ELSE Returned(rs)

-----------------------------------------------------------------------------
(* fmsecLedgerCsv: the delimited-text adapter; uploadedLedger: the loader  *)

\* The k-th smallest element of a set of positions.
NthOf(positions, k) == CHOOSE p \in positions : Cardinality({q \in positions : q < p}) = k - 1

\* text.split(/\r?\n/)
SplitLines(text) ==
  LET nl == {i \in 1..Len(text) : text[i] = "\n"}
      n  == Cardinality(nl)
  IN [k \in 1..(n + 1) |->
        LET from == IF k = 1 THEN 1 ELSE NthOf(nl, k - 1) + 1
            to   == IF k = n + 1 THEN Len(text) ELSE NthOf(nl, k) - 1
        IN IF k <= n /\ to >= from /\ text[to] = "\r"
             THEN SubSeq(text, from, to - 1)
             ELSE SubSeq(text, from, to)]

\* The loop of parseCsvLine over one cell's stretch of the line, which it
\* enters outside quotes: the cell text it builds.
RECURSIVE CsvCellScan(_, _, _)
CsvCellScan(s, i, inQuotes) ==
  IF i > Len(s) THEN <<>>
  ELSE IF s[i] = "\"" THEN
    IF inQuotes /\ i + 1 <= Len(s) /\ s[i + 1] = "\""
      THEN <<"\"">> \o CsvCellScan(s, i + 2, TRUE)
      ELSE CsvCellScan(s, i + 1, ~inQuotes)
  ELSE <<s[i]>> \o CsvCellScan(s, i + 1, inQuotes)

\* parseCsvLine: the loop is in quotes exactly after an odd number of quote
\* characters, so the cells end at the commas that follow an even number.
parseCsvLine(line) ==
  LET commas == {i \in 1..Len(line) :
                   line[i] = "," /\ Cardinality({j \in 1..(i - 1) : line[j] = "\""}) % 2 = 0}
      n == Cardinality(commas)
  IN [k \in 1..(n + 1) |->
        CsvCellScan(SubSeq(line,
                           IF k = 1 THEN 1 ELSE NthOf(commas, k - 1) + 1,
                           IF k = n + 1 THEN Len(line) ELSE NthOf(commas, k) - 1),
                    1, FALSE)]

\* lines.filter((l) => l.trim().length > 0)
RECURSIVE NonBlank(_)
NonBlank(ls) ==
  IF ls = <<>> THEN <<>>
  ELSE (IF trim(Head(ls)) = <<>> THEN <<>> ELSE <<Head(ls)>>) \o NonBlank(Tail(ls))

CellsOf(texts) == [c \in 1..Len(texts) |-> StrCell(texts[c])]

RECURSIVE CsvDataRowsFrom(_, _, _)
CsvDataRowsFrom(normalizedHeaders, ls, i) ==
  IF i > Len(ls) THEN <<>>
  ELSE LET obj == RowObject(normalizedHeaders, CellsOf(parseCsvLine(ls[i])))
       IN (IF trim(JSString(Field(obj, <<"C","D">>))) = <<>> THEN <<>> ELSE <<coerceLedgerRow(obj)>>)
          \o CsvDataRowsFrom(normalizedHeaders, ls, i + 1)

loadFmsecLedgerRowsFromCsvText(csvText) ==
  LET ls == NonBlank(SplitLines(csvText))
      headerLineIndex ==
        FirstOf({i \in 1..Len(ls) :
                   startsWith(toUpperCase(trim(ls[i])),
                              <<"C","D",",","N","U","M","B","E","R",",","D","A","T","E",",">>)})
  IN IF headerLineIndex = 0
       THEN Thrown("Could not find header row (CD, NUMBER, DATE, ...) in CSV", <<>>)
       ELSE LET headerCells == CellsOf(parseCsvLine(ls[headerLineIndex]))
            IN Returned(CsvDataRowsFrom([c \in 1..Len(headerCells) |-> normalizeHeaderCell(headerCells[c])],
                                        ls, headerLineIndex + 1))

\* name.lastIndexOf('.') counted from 1; 0 for -1
LastDot(name) ==
  LET dots == {i \in 1..Len(name) : name[i] = "."}
  IN IF dots = {} THEN 0 ELSE CHOOSE i \in dots : \A j \in dots : j <= i

getExtension_CaseSensitive(name) ==
  LET dot == LastDot(name)
  IN IF dot = 0 THEN <<>> ELSE SubSeq(name, dot + 1, Len(name))

getExtension(name) ==
  LET dot == LastDot(name)
  IN IF dot = 0 THEN <<>> ELSE toLowerCase(SubSeq(name, dot + 1, Len(name)))

\* adapter result, then validateFmsecLedgerHeaders(rows), then return rows
ValidateAndReturn(adapted) ==
  IF adapted.threw THEN adapted ELSE validateFmsecLedgerHeaders(adapted.rows)

\* The upload is given by its file name, whether its buffer is empty, the text
\* its bytes decode to (buf.toString('utf8')) and the first sheet XLSX.read
\* finds in it (as sheet_to_json lays it out).
loadFmsecLedgerRowsFromBuffer(name, empty, text, sheet) ==
  LET ext == getExtension(name)
  IN IF empty THEN Thrown("Missing file data", <<>>)
     ELSE IF ext = <<"c","s","v">>
       THEN ValidateAndReturn(loadFmsecLedgerRowsFromCsvText(text))
     ELSE IF ext = <<"x","l","s","x">> \/ ext = <<"x","l","s">>
       THEN ValidateAndReturn(parseLedgerRowsFromWorksheet(sheet))
     ELSE Thrown("Unsupported file type. Upload a .csv or .xlsx", <<>>)

-----------------------------------------------------------------------------
(* fmsecLedgerPdf: the statement-text adapter                              *)

\* s.indexOf(p), counted from 0; -1 when p does not occur
indexOf(s, p) == FirstOf({from \in 1..(Len(s) + 1) : StartsWithAt(s, p, from)}) - 1

\* s.slice(from, to) for 0 <= from and 0 <= to
slice(s, from, to) == SubSeq(s, from + 1, IF to > Len(s) THEN Len(s) ELSE to)

IsUpperLetter(c) == c \in DOMAIN LowerMap

\* \w
IsWordChar(c) == IsDigit(c) \/ c \in DOMAIN LowerMap \/ c \in DOMAIN UpperMap \/ c = "_"

\* /\d{2}\/\d{2}\/\d{4}/ matched at position p of s
IsDateTextAt(s, p) ==
  /\ p + 9 <= Len(s)
  /\ s[p + 2] = "/"
  /\ s[p + 5] = "/"
  /\ \A k \in {0, 1, 3, 4, 6, 7, 8, 9} : IsDigit(s[p + k])

\* The match of /^\s*(\d{2}\/\d{2}\/\d{4})\s+(\S+)\s*(.*)$/ against a line:
\* whether its first three parts match, and groups 1 to 3.
StartLineMatch(first) ==
  LET body       == trimStart(first)
      afterDate  == SubSeq(body, 11, Len(body))
      refAndRest == trimStart(afterDate)
      refLen     == LET ws == {i \in 1..Len(refAndRest) : refAndRest[i] \in WhiteSpace}
                    IN IF ws = {} THEN Len(refAndRest) ELSE FirstOf(ws) - 1
  IN [ ok        |-> /\ IsDateTextAt(body, 1)
                     /\ afterDate # <<>>
                     /\ afterDate[1] \in WhiteSpace
                     /\ refAndRest # <<>>,
       date      |-> slice(body, 0, 10),
       reference |-> SubSeq(refAndRest, 1, refLen),
       rest      |-> trimStart(SubSeq(refAndRest, refLen + 1, Len(refAndRest))) ]

parseReference(ref) ==
  LET raw  == trim(ref)
      dash == indexOf(raw, <<"-">>)
      head == SubSeq(raw, 1, dash)
      tail == SubSeq(raw, dash + 2, Len(raw))
      m    == /\ dash >= 1
              /\ dash <= 6
              /\ \A i \in 1..dash : IsUpperLetter(raw[i])
              /\ tail # <<>>
              /\ \A i \in 1..Len(tail) : IsDigit(tail[i])
  IN IF raw = <<>> THEN [CD |-> <<>>, NUMBER |-> <<>>]
     ELSE IF m THEN [CD |-> head, NUMBER |-> tail]
     ELSE IF dash = -1 THEN [CD |-> raw, NUMBER |-> <<>>]
     ELSE [CD |-> trim(head), NUMBER |-> trim(tail)]

isTransactionStartLine(line) == StartLineMatch(line).ok

\* Date.UTC(y, month - 1, day, 12): a year below 100 counts from 1900, and a
\* day past the end of the month (day <= 31) runs into the next month.
parsePdfDateMmDdYyyy(value) ==
  LET s     == trim(value)
      month == DigitsVal(SubSeq(s, 1, 2))
      day   == DigitsVal(SubSeq(s, 4, 5))
      yyyy  == DigitsVal(SubSeq(s, 7, 10))
      y     == IF yyyy < 100 THEN 1900 + yyyy ELSE yyyy
  IN IF ~(Len(s) = 10 /\ IsDateTextAt(s, 1)) THEN NullDate
     ELSE IF month < 1 \/ month > 12 THEN NullDate
     ELSE IF day < 1 \/ day > 31 THEN NullDate
     ELSE IF day > DaysInMonth(y, month - 1)
       THEN DateUTC(y, month, day - DaysInMonth(y, month - 1), 12)
       ELSE DateUTC(y, month - 1, day, 12)

\* The position after the run of digits that starts at position q.
DigitsEnd(s, q) ==
  LET nonDigits == {i \in q..Len(s) : ~IsDigit(s[i])}
  IN IF nonDigits = {} THEN Len(s) + 1 ELSE FirstOf(nonDigits)

\* The number of consecutive ,ddd groups from position g.
GroupCount(s, g) ==
  LET counts == {k \in 0..((Len(s) + 1 - g) \div 4) :
                   \A j \in 0..(k - 1) :
                     /\ s[g + 4 * j] = ","
                     /\ IsDigit(s[g + 4 * j + 1])
                     /\ IsDigit(s[g + 4 * j + 2])
                     /\ IsDigit(s[g + 4 * j + 3])}
  IN CHOOSE k \in counts : \A j \in counts : j <= k

\* (?:\.\d{2})\)? at position d, for a match that started at p
MoneyMatchAfterGroups(s, p, d) ==
  IF ~(d + 2 <= Len(s) /\ s[d] = "." /\ IsDigit(s[d + 1]) /\ IsDigit(s[d + 2])) THEN 0
  ELSE IF d + 3 <= Len(s) /\ s[d + 3] = ")" THEN d + 4 - p
  ELSE d + 3 - p

\* Length of the match of /\(?-?\d{1,3}(?:,\d{3})*(?:\.\d{2})\)?/ that starts
\* at position p of s; 0 when there is none.  The digits before the first
\* comma or point are the whole of a run of one to three digits, and the ,ddd
\* groups are all the groups there are, since only ".dd" may follow them.
MoneyMatchLength(s, p) ==
  LET q1 == IF p <= Len(s) /\ s[p] = "(" THEN p + 1 ELSE p
      q2 == IF q1 <= Len(s) /\ s[q1] = "-" THEN q1 + 1 ELSE q1
      g  == DigitsEnd(s, q2)
  IN IF g - q2 < 1 \/ g - q2 > 3 THEN 0
     ELSE MoneyMatchAfterGroups(s, p, g + 4 * GroupCount(s, g))

\* the while ((m = re.exec(s))) loop, from position `from` of s
RECURSIVE MoneyTokensFrom(_, _)
MoneyTokensFromMatch(s, p) ==
  LET len == MoneyMatchLength(s, p)
  IN IF p = 0 THEN <<>>
     ELSE <<[value |-> SubSeq(s, p, p + len - 1), index |-> p - 1]>> \o MoneyTokensFrom(s, p + len)

MoneyTokensFrom(s, from) ==
  MoneyTokensFromMatch(s, FirstOf({p \in from..Len(s) : MoneyMatchLength(s, p) > 0}))

findMoneyTokensWithIndex(line) == MoneyTokensFrom(RemoveChars(line, {"\f"}), 1)

\* num === null ? null : (num < 0 ? -num : num); null carries the value 0
normalizeMoney(n) ==
  [parseAmount(StrCell(n)) EXCEPT !.v = IF @ < 0 THEN 0 - @ ELSE @]

\* /\bPHP\b/i.test(line)
HasPhpWord(line) ==
  \E p \in 1..(Len(line) - 2) :
    /\ toUpperCase(SubSeq(line, p, p + 2)) = <<"P","H","P">>
    /\ p = 1 \/ ~IsWordChar(line[p - 1])
    /\ p + 3 > Len(line) \/ ~IsWordChar(line[p + 3])

\* the loop of extractMovementAmountFromPhpLine from line i down to the first
RECURSIVE MovementFrom(_, _)
MovementOfTokens(blockLines, i, tokens) ==
  LET pick     == IF Len(tokens) >= 2 THEN tokens[Len(tokens) - 1] ELSE tokens[1]
      movement == normalizeMoney(pick.value)
  IN IF tokens = <<>> THEN MovementFrom(blockLines, i - 1)
     ELSE IF movement.null THEN MovementFrom(blockLines, i - 1)
     ELSE movement

MovementFrom(blockLines, i) ==
  IF i < 1 THEN Nul
  ELSE IF ~HasPhpWord(blockLines[i]) THEN MovementFrom(blockLines, i - 1)
  ELSE MovementOfTokens(blockLines, i, findMoneyTokensWithIndex(blockLines[i]))

extractMovementAmountFromPhpLine(blockLines) == MovementFrom(blockLines, Len(blockLines))

\* /^[=\-]{6,}$/.test(t)
IsSeparatorText(t) == Len(t) >= 6 /\ \A i \in 1..Len(t) : t[i] \in {"=", "-"}

\* line.trim() !== '' && /^[\d\s,().-]+$/.test(line.trim())
MostlySpacesNumbers(line) ==
  LET t == trim(line)
  IN t # <<>> /\ \A i \in 1..Len(t) : IsDigit(t[i]) \/ t[i] \in WhiteSpace \cup {",", "(", ")", ".", "-"}

\* the loop of extractParticulars from line i of the block on
RECURSIVE ParticularsParts(_, _)
ParticularsParts(blockLines, i) ==
  IF i > Len(blockLines) THEN <<>>
  ELSE LET line    == blockLines[i]
           trimmed == trim(line)
           skipped == \/ HasPhpWord(line)
                      \/ findMoneyTokensWithIndex(line) # <<>> /\ MostlySpacesNumbers(line)
                      \/ trimmed = <<>>
                      \/ IsSeparatorText(trimmed)
       IN (IF skipped THEN <<>> ELSE <<trimmed>>) \o ParticularsParts(blockLines, i + 1)

\* s.replace(/\s*[=\-]{6,}\s*/g, ' ').replace(/\s+/g, ' ').trim(): every
\* character of a run of six or more = and - becomes a space, which the second
\* replace merges with the white space around the run.
DropSeparators(s) ==
  LET IsSep(i) == s[i] \in {"=", "-"}
      InRun(i) == /\ IsSep(i)
                  /\ \E a \in 1..i : \E b \in i..Len(s) : b - a >= 5 /\ \A k \in a..b : IsSep(k)
  IN trim(ReplaceSpaceRuns([i \in 1..Len(s) |-> IF InRun(i) THEN " " ELSE s[i]], <<" ">>))

\* s.replace(/\s+0\.\d{2,4}\s*$/, '')
StripNumericTail(s) ==
  LET t  == trimEnd(s)
      ks == {k \in 2..4 : /\ Len(t) >= k + 3
                          /\ t[Len(t) - k - 2] \in WhiteSpace
                          /\ t[Len(t) - k - 1] = "0"
                          /\ t[Len(t) - k] = "."
                          /\ \A j \in (Len(t) - k + 1)..Len(t) : IsDigit(t[j])}
  IN IF ks = {} THEN s
     ELSE trimEnd(SubSeq(t, 1, Len(t) - (CHOOSE k \in ks : TRUE) - 2))

extractParticulars(blockLines, firstLineRemainder) ==
  trim(StripNumericTail(DropSeparators(trim(ReplaceSpaceRuns(
    Join((IF firstLineRemainder # <<>> THEN <<trim(firstLineRemainder)>> ELSE <<>>)
           \o ParticularsParts(blockLines, 2),
         <<" ">>),
    <<" ">>)))))

\* The debit and the credit parseTransactionBlock gives a row.
PhpAmounts_DefaultsToCredit(cdUpper, pUpper, movement) ==
  IF movement.null \/ movement.v = 0 THEN [debit |-> 0, credit |-> 0]
  ELSE IF cdUpper \in {<<"B","I">>, <<"S","I">>} THEN [debit |-> 0, credit |-> 0]
  ELSE [debit |-> 0, credit |-> movement.v]

PhpAmounts(cdUpper, pUpper, movement) ==
  LET isCashDividend == cdUpper = <<"C","M">> /\ includes(pUpper, <<"C","A","S","H"," ","D","I","V","I","D","E","N","D">>)
      isCouponPayment == cdUpper = <<"C","M">> /\ includes(pUpper, <<"C","O","U","P","O","N"," ","P","A","Y","M","E","N","T">>)
      isFutureTransaction ==
        cdUpper = <<"O","R">> /\ startsWith(pUpper, <<"F","U","T","U","R","E"," ","T","R","A","N","S","A","C","T","I","O","N">>)
      isTrade == cdUpper = <<"B","I">> \/ cdUpper = <<"S","I">>
      isNonCashDividend == cdUpper = <<"I","N">> /\ includes(pUpper, <<"S","T","O","C","K"," ","D","I","V","I","D","E","N","D">>)
      isBondPurchase ==
        /\ cdUpper = <<"D","M">>
        /\ \/ includes(pUpper, <<"P","U","R","C","H","A","S","E"," ","O","F"," ","R","T","B">>)
           \/ includes(pUpper, <<"P","H","I","L","I","P","P","I","N","E"," ","G","O","V","E","R","N","M","E","N","T">>)
           \/ includes(pUpper, <<"B","O","N","D"," ">>)
  IN IF movement.null \/ movement.v = 0 THEN [debit |-> 0, credit |-> 0]
     ELSE IF isTrade \/ isNonCashDividend \/ isBondPurchase THEN [debit |-> 0, credit |-> 0]
     ELSE IF isCashDividend \/ isCouponPayment \/ isFutureTransaction
       THEN [debit |-> 0, credit |-> movement.v]
     ELSE [debit |-> movement.v, credit |-> 0]

\* The object parseTransactionBlock returns, given the values it has computed.
RowOfBlock(ref, date, PARTICULARS, movement) ==
  LET amounts == PhpAmounts(toUpperCase(trim(ref.CD)), toUpperCase(trim(PARTICULARS)), movement)
  IN [ CD |-> trim(ref.CD),
       NUMBER |-> trim(ref.NUMBER),
       DATE |-> date,
       DUE_DATE |-> NullDate,
       PARTICULARS |-> trim(PARTICULARS),
       SECURITY |-> <<>>,
       NO_OF_SHARES |-> Nul,
       CURRENCY |-> <<"P","H","P">>,
       UNIT_PRICE |-> Nul,
       FX_AMT |-> Nul,
       FX_RUNNING_BAL |-> Nul,
       PHP_DEBIT |-> Num(amounts.debit),
       PHP_CREDIT |-> Num(amounts.credit),
       PHP_RUNNING_BAL |-> Nul ]

\* parseTransactionBlock: <<>> for null, <<row>> for a row.  Group 3 of the
\* pattern is (.*)$, which no line terminator lets through.
parseTransactionBlock(blockLines, debitCol, creditCol) ==
  IF blockLines = <<>> THEN <<>>
  ELSE
    LET first == blockLines[1]
        m     == StartLineMatch(first)
        date  == parsePdfDateMmDdYyyy(m.date)
        firstRemainder ==
          IF ~debitCol.null /\ debitCol.v > 0 /\ Len(first) > debitCol.v
            THEN trim(slice(first, indexOf(first, m.reference) + Len(m.reference), debitCol.v))
            ELSE m.rest
    IN IF ~m.ok \/ (\E i \in 1..Len(m.rest) : m.rest[i] \in {"\n", "\r"}) THEN <<>>
       ELSE IF ~IsValidDate(date) THEN <<>>
       ELSE <<RowOfBlock(parseReference(m.reference), date,
                         extractParticulars(blockLines, firstRemainder),
                         extractMovementAmountFromPhpLine(blockLines))>>

\* /ENDING\s+SECURITY\s+POSITION/i.test(s), s in upper case
HasEndingPositionBanner(up) ==
  \E p \in 1..Len(up) :
    /\ StartsWithAt(up, <<"E","N","D","I","N","G">>, p)
    /\ LET afterEnding == SubSeq(up, p + 6, Len(up))
           security    == trimStart(afterEnding)
       IN /\ afterEnding # <<>>
          /\ afterEnding[1] \in WhiteSpace
          /\ startsWith(security, <<"S","E","C","U","R","I","T","Y">>)
          /\ Len(security) > 8
          /\ security[9] \in WhiteSpace
          /\ startsWith(trimStart(SubSeq(security, 9, Len(security))), <<"P","O","S","I","T","I","O","N">>)

\* /\bL\s*E\s*G\s*E\s*N\s*D\b/i.test(s), s in upper case: the letters are the
\* first six characters other than white space from an L on a word boundary.
HasLegendBanner(up) ==
  \E p \in 1..Len(up) :
    /\ up[p] = "L"
    /\ p = 1 \/ ~IsWordChar(up[p - 1])
    /\ LET letters == {i \in p..Len(up) : up[i] \notin WhiteSpace}
       IN /\ Cardinality(letters) >= 6
          /\ [k \in 1..6 |-> up[NthOf(letters, k)]] = <<"L","E","G","E","N","D">>
          /\ NthOf(letters, 6) = Len(up) \/ ~IsWordChar(up[NthOf(letters, 6) + 1])

\* /This is a computer generated statement/i.test(s), s in upper case
HasGeneratedStatementFooter(up) ==
  includes(up,
           <<"T","H","I","S"," ","I","S"," ","A"," ","C","O","M","P","U","T","E","R"," ",
             "G","E","N","E","R","A","T","E","D"," ","S","T","A","T","E","M","E","N","T">>)

shouldEndTransactionSection(s) ==
  LET up == toUpperCase(s)
  IN HasEndingPositionBanner(up) \/ HasLegendBanner(up) \/ HasGeneratedStatementFooter(up)

\* s.includes('PRICE') && s.includes('DEBIT')
IsDebitHeaderLine(s) ==
  includes(s, <<"P","R","I","C","E">>) /\ includes(s, <<"D","E","B","I","T">>)

\* s.includes('CREDIT') && s.includes('BALANCE')
IsCreditHeaderLine(s) ==
  includes(s, <<"C","R","E","D","I","T">>) /\ includes(s, <<"B","A","L","A","N","C","E">>)

\* flush(): the rows after it (it also sets currentBlock to null); the row is
\* pushed if (row && String(row.CD ?? '').trim())
flush(block, rs, debitCol, creditCol) ==
  IF block = <<>> THEN rs
  ELSE rs \o SelectSeq(parseTransactionBlock(block, debitCol, creditCol),
                       LAMBDA row : trim(row.CD) # <<>>)

\* The scanner's locals: the open block (<<>> for null), the rows so far, the
\* two column offsets, and whether the loop has left through its break.
InitialScan == [block |-> <<>>, rows |-> <<>>, debitCol |-> Nul, creditCol |-> Nul, stopped |-> FALSE]

\* Which branch of the loop body a line takes.
LineBranch(block, s) ==
  IF block # <<>> /\ shouldEndTransactionSection(s) THEN "end"
  ELSE IF IsDebitHeaderLine(s) THEN "debitHeader"
  ELSE IF IsCreditHeaderLine(s) THEN "creditHeader"
  ELSE IF isTransactionStartLine(s) THEN "start"
  ELSE IF block # <<>> THEN "accumulate"
  ELSE "skip"

\* flush(); currentBlock = null, for either branch that flushes
Flushed(st) ==
  [st EXCEPT !.rows = flush(st.block, st.rows, st.debitCol, st.creditCol), !.block = <<>>]

\* if (currentBlock && shouldEndTransactionSection(s)) { flush(); currentBlock = null; break }
AtSectionEnd_KeepsScanning(flushed) == flushed

AtSectionEnd(flushed) == [flushed EXCEPT !.stopped = TRUE]

\* currentBlock.push(s), blank or not
Accumulate_DropsBlankLines(block, s) == IF trim(s) = <<>> THEN block ELSE Append(block, s)

Accumulate(block, s) == Append(block, s)

\* The loop body for a line that takes the given branch.
TakeBranch(st, s, branch) ==
  IF branch = "end" THEN AtSectionEnd(Flushed(st))
  ELSE IF branch = "debitHeader" THEN [st EXCEPT !.debitCol = Num(indexOf(s, <<"D","E","B","I","T">>))]
  ELSE IF branch = "creditHeader" THEN [st EXCEPT !.creditCol = Num(indexOf(s, <<"C","R","E","D","I","T">>))]
  ELSE IF branch = "start" THEN [Flushed(st) EXCEPT !.block = <<s>>]
  ELSE IF branch = "accumulate" THEN [st EXCEPT !.block = Accumulate(st.block, s)]
  ELSE st

\* One iteration of for (const line of lines).
ScanLine(st, s) == TakeBranch(st, s, LineBranch(st.block, s))

RECURSIVE ScanLines(_, _, _)
ScanLines(st, ls, i) ==
  IF i > Len(ls) \/ st.stopped THEN st
  ELSE ScanLines(ScanLine(st, ls[i]), ls, i + 1)

\* the code after the loop: flush(), validateFmsecLedgerHeaders(rows), return rows
AfterScan(st) == validateFmsecLedgerHeaders(flush(st.block, st.rows, st.debitCol, st.creditCol))

\* text.replace(/\f/g, '').split(/\r?\n/)
PdfLinesOf(text) == SplitLines(RemoveChars(text, {"\f"}))

parseFmsecLedgerRowsFromPdfText(text) == AfterScan(ScanLines(InitialScan, PdfLinesOf(text), 1))

-----------------------------------------------------------------------------
(* monthlyCashflow.js                                                      *)

MONTH_LABELS == <<"Jan", "Feb", "Mar", "Apr", "May", "Jun", "Jul", "Aug", "Sep", "Oct", "Nov", "Dec">>

initMonthRow(monthIndex) ==
  [month |-> MONTH_LABELS[monthIndex + 1], deposit |-> 0, withdraw |-> 0, dividends |-> 0]

\* Returns undefined (Nul) when the amount is 0; amounts are integers here, so
\* the NaN and Infinity guards never apply.
addMoney(target, amount) ==
  IF amount = 0 THEN Nul ELSE Num(target + amount)

isDividendRow_IgnoresCode(row) ==
  LET particulars == toLowerCase(row.PARTICULARS)
  IN includes(particulars, <<"c","a","s","h"," ","d","i","v","i","d","e","n","d">>)
       \/ includes(particulars, <<"c","o","u","p","o","n"," ","p","a","y","m","e","n","t">>)

isDividendRow(row) ==
  LET cd == toUpperCase(trim(row.CD))
      particulars == toLowerCase(row.PARTICULARS)
  IN cd = <<"C", "M">>
       /\ (includes(particulars, <<"c","a","s","h"," ","d","i","v","i","d","e","n","d">>)
           \/ includes(particulars, <<"c","o","u","p","o","n"," ","p","a","y","m","e","n","t">>))

isTradeRow_BuyOnly(row) ==
  toUpperCase(trim(row.CD)) = <<"B", "I">>

isTradeRow(row) ==
  LET cd == toUpperCase(trim(row.CD))
  IN cd = <<"B", "I">> \/ cd = <<"S", "I">>

isFutureTransactions_Includes(row) ==
  toUpperCase(trim(row.CD)) = <<"O", "R">>
    /\ includes(toUpperCase(trim(row.PARTICULARS)),
                <<"F","U","T","U","R","E"," ","T","R","A","N","S","A","C","T","I","O","N">>)

isFutureTransactions(row) ==
  LET cd == toUpperCase(trim(row.CD))
      particulars == toUpperCase(trim(row.PARTICULARS))
  IN cd = <<"O", "R">>
       /\ startsWith(particulars, <<"F","U","T","U","R","E"," ","T","R","A","N","S","A","C","T","I","O","N">>)

\* The date gate of the loop: `continue` when this is false.
PassesDateGate_NoYearFilter(row, yr) == IsValidDate(row.DATE)

PassesDateGate(row, yr) ==
  /\ IsValidDate(row.DATE)
  /\ ~(yr # 0 /\ getFullYear(row.DATE) # yr)

\* byMonth.set(k, v)
MapSet(map, k, v) == [m \in DOMAIN map \cup {k} |-> IF m = k THEN v ELSE map[m]]

\* One pass of the loop body for `row`: the Map after it.
LoopBody_DepositOrWithdraw(map, row, yr) ==
  IF ~PassesDateGate(row, yr) THEN map
  ELSE
    LET monthIndex == getMonth(row.DATE)
        current == IF monthIndex \in DOMAIN map THEN map[monthIndex] ELSE initMonthRow(monthIndex)
        credit == Coalesce(row.PHP_CREDIT, Num(0)).v
        debit == Coalesce(row.PHP_DEBIT, Num(0)).v
    IN IF isDividendRow(row) THEN
         MapSet(map, monthIndex,
                [current EXCEPT !.dividends = Coalesce(addMoney(current.dividends, credit), Num(current.dividends)).v])
       ELSE IF isTradeRow(row) THEN
         MapSet(map, monthIndex, current)
       ELSE IF isFutureTransactions(row) THEN
         MapSet(map, monthIndex,
                [current EXCEPT !.deposit = Coalesce(addMoney(current.deposit, credit), Num(current.deposit)).v])
       ELSE
         MapSet(map, monthIndex,
                [current EXCEPT !.withdraw = Coalesce(addMoney(current.withdraw, debit), Num(current.withdraw)).v])

LoopBody(map, row, yr) ==
  IF ~PassesDateGate(row, yr) THEN map
  ELSE
    LET monthIndex == getMonth(row.DATE)
        current == IF monthIndex \in DOMAIN map THEN map[monthIndex] ELSE initMonthRow(monthIndex)
        credit == Coalesce(row.PHP_CREDIT, Num(0)).v
        debit == Coalesce(row.PHP_DEBIT, Num(0)).v
    IN IF isDividendRow(row) THEN
         MapSet(map, monthIndex,
                [current EXCEPT !.dividends = Coalesce(addMoney(current.dividends, credit), Num(current.dividends)).v])
       ELSE IF isTradeRow(row) THEN
         MapSet(map, monthIndex, current)
       ELSE
         LET afterDeposit ==
               IF isFutureTransactions(row)
                 THEN [current EXCEPT !.deposit = Coalesce(addMoney(current.deposit, credit), Num(current.deposit)).v]
                 ELSE current
         IN MapSet(map, monthIndex,
                   [afterDeposit EXCEPT !.withdraw = Coalesce(addMoney(afterDeposit.withdraw, debit), Num(afterDeposit.withdraw)).v])

RECURSIVE SortedKeys_Descending(_)
SortedKeys_Descending(keys) ==
  IF keys = {} THEN <<>>
  ELSE LET greatest == CHOOSE k \in keys : \A j \in keys : k >= j
       IN <<greatest>> \o SortedKeys_Descending(keys \ {greatest})

\* Array.from(byMonth.entries()).sort(([a], [b]) => a - b): the keys in order
RECURSIVE SortedKeys(_)
SortedKeys(keys) ==
  IF keys = {} THEN <<>>
  ELSE LET least == CHOOSE k \in keys : \A j \in keys : k <= j
       IN <<least>> \o SortedKeys(keys \ {least})

\* The value returned after the loop.
ReturnValue_ElevenMonths(map, yr) ==
  IF yr # 0
    THEN [i \in 1..11 |-> IF (i - 1) \in DOMAIN map THEN map[i - 1] ELSE initMonthRow(i - 1)]
    ELSE LET keys == SortedKeys(DOMAIN map) IN [i \in 1..Len(keys) |-> map[keys[i]]]

ReturnValue(map, yr) ==
  IF yr # 0
    THEN [i \in 1..12 |-> IF (i - 1) \in DOMAIN map THEN map[i - 1] ELSE initMonthRow(i - 1)]
    ELSE LET keys == SortedKeys(DOMAIN map) IN [i \in 1..Len(keys) |-> map[keys[i]]]

EmptyMap == [m \in {} |-> initMonthRow(0)]

\* computeMonthlyCashflow(rs, {year: yr}) as a function of its arguments
RECURSIVE FoldRows(_, _, _)
FoldRows(map, rs, yr) ==
  IF rs = <<>> THEN map ELSE FoldRows(LoopBody(map, Head(rs), yr), Tail(rs), yr)

computeMonthlyCashflow(rs, yr) == ReturnValue(FoldRows(EmptyMap, rs, yr), yr)

\* months.reduce(...): every bucket of the model has its three fields
RECURSIVE computeCashflowTotals(_)
computeCashflowTotals(months) ==
  IF months = <<>> THEN [deposit |-> 0, withdraw |-> 0, dividends |-> 0]
  ELSE LET acc == computeCashflowTotals(SubSeq(months, 1, Len(months) - 1))
           m   == months[Len(months)]
       IN [deposit |-> acc.deposit + m.deposit,
           withdraw |-> acc.withdraw + m.withdraw,
           dividends |-> acc.dividends + m.dividends]

-----------------------------------------------------------------------------
(* The aggregation pass as a state machine                                 *)

MaxRows == 2

TargetYear == 2024

Jan16 == DateUTC(2024, 0, 16, 12)

Feb05 == DateUTC(2024, 1, 5, 12)

Jan20LastYear == DateUTC(2023, 0, 20, 12)

CodeTexts == {<<"B","I">>, <<" ","s","i"," ">>, <<"C","M">>, <<"O","R">>}

\* " Future Transaction - XYZ", "NOT A FUTURE TRANSACTION", "Cash Dividend XYZ",
\* "COUPON PAYMENT"
FutureTransactionText ==
  <<" ","F","u","t","u","r","e"," ","T","r","a","n","s","a","c","t","i","o","n"," ","-"," ","X","Y","Z">>

ParticularsTexts ==
  { FutureTransactionText,
    <<"N","O","T"," ","A"," ","F","U","T","U","R","E"," ","T","R","A","N","S","A","C","T","I","O","N">>,
    <<"C","a","s","h"," ","D","i","v","i","d","e","n","d"," ","X","Y","Z">>,
    <<"C","O","U","P","O","N"," ","P","A","Y","M","E","N","T">> }

Debit200 == parseAmount(StrCell(<<"2",".","0","0">>))

Credit300 == parseAmount(StrCell(<<"3",".","0","0">>))

\* Every code with every description, dated in January of the target year.
ClassRows ==
  [CD : CodeTexts, PARTICULARS : ParticularsTexts, DATE : {Jan16},
   PHP_DEBIT : {Debit200}, PHP_CREDIT : {Credit300}]

\* A deposit row under every kind of date.
DateRows ==
  [CD : {<<"O","R">>},
   PARTICULARS : {FutureTransactionText},
   DATE : {NullDate, InvalidDate, Feb05, Jan20LastYear},
   PHP_DEBIT : {Debit200}, PHP_CREDIT : {Credit300}]

\* A deposit row with the amounts coerceLedgerRow gives for blank and
\* parenthesised cells.
AmountRows ==
  [CD : {<<"O","R">>},
   PARTICULARS : {FutureTransactionText},
   DATE : {Jan16},
   PHP_DEBIT : {parseAmount(StrCell(<<>>)), parseAmount(StrCell(<<"(","1",".","0","0",")">>))},
   PHP_CREDIT : {parseAmount(StrCell(<<"-">>))}]

InputRows == ClassRows \cup DateRows \cup AmountRows

SeqsUpTo(S, n) == UNION {[1..k -> S] : k \in 0..n}

\* The aggregator before any call, for the runs that exercise another part.
AggIdle ==
  /\ rows = <<>>
  /\ year = 0
  /\ tz = 0
  /\ idx = 0
  /\ byMonth = EmptyMap
  /\ pc = "idle"
  /\ result = <<>>
  /\ totals = [deposit |-> 0, withdraw |-> 0, dividends |-> 0]

LoadIdle ==
  /\ filename = <<>>
  /\ content = [empty |-> TRUE, table |-> <<>>]
  /\ loadPc = "idle"
  /\ outcome = Returned(<<>>)

PdfIdle ==
  /\ pdfText = <<>>
  /\ lines = <<>>
  /\ li = 0
  /\ scan = InitialScan
  /\ pdfPc = "idle"
  /\ pdfOutcome = Returned(<<>>)

ParseIdle ==
  /\ arg = [fn |-> "none"]
  /\ ret = Nul
  /\ fnPc = "idle"

RelIdle ==
  /\ job = [fn |-> "none"]
  /\ relPc = "idle"
  /\ pending = [kind |-> "none"]
  /\ releases = 0
  /\ resource = "none"
  /\ settlement = [kind |-> "none"]

Init ==
  /\ LoadIdle
  /\ PdfIdle
  /\ ParseIdle
  /\ RelIdle
  /\ rows \in SeqsUpTo(InputRows, MaxRows)
  /\ year \in {0, TargetYear}
  /\ tz = 0
  /\ idx = 0
  /\ byMonth = EmptyMap
  /\ pc = "loop"
  /\ result = <<>>
  /\ totals = [deposit |-> 0, withdraw |-> 0, dividends |-> 0]

\* for (const row of rows) { ... }: one iteration
Iterate ==
  /\ pc = "loop"
  /\ idx < Len(rows)
  /\ byMonth' = LoopBody(byMonth, rows[idx + 1], year)
  /\ idx' = idx + 1
  /\ UNCHANGED <<rows, year, tz, pc, result, totals>>
  /\ UNCHANGED <<loadVars, pdfVars, parseVars, relVars>>

\* the code after the loop, up to the return
Return ==
  /\ pc = "loop"
  /\ idx = Len(rows)
  /\ result' = ReturnValue(byMonth, year)
  /\ pc' = "done"
  /\ UNCHANGED <<rows, year, tz, idx, byMonth, totals>>
  /\ UNCHANGED <<loadVars, pdfVars, parseVars, relVars>>

\* const totals = computeCashflowTotals(months)
Totals ==
  /\ pc = "done"
  /\ totals' = computeCashflowTotals(result)
  /\ pc' = "totalled"
  /\ UNCHANGED <<rows, year, tz, idx, byMonth, result>>
  /\ UNCHANGED <<loadVars, pdfVars, parseVars, relVars>>

Next == Iterate \/ Return \/ Totals

Spec == Init /\ [][Next]_vars

-----------------------------------------------------------------------------
(* The loader as a state machine: one upload, one call                     *)

MaxDataRows == 1

HeaderTexts ==
  << <<"C","D">>, <<"N","u","m","b","e","r">>, <<"D","A","T","E">>,
     <<" ","P","a","r","t","i","c","u","l","a","r","s"," ">>,
     <<"P","H","P"," ","D"," ","E"," ","B"," ","I"," ","T">>,
     <<"P","H","P"," "," ","C","R","E","D","I","T">> >>

\* The cells a data row may hold in each of the six columns.
ColumnCells ==
  << {StrCell(<<"O","R">>), StrCell(<<" ">>)},
     {StrCell(<<"1">>)},
     {StrCell(<<"1","6","/","1","/","2","0","2","4">>), NumCell(4530700)},
     {StrCell(<<"D","e","p","o","s","i","t">>)},
     {StrCell(<<>>), StrCell(<<"(","1",".","0","0",")">>), StrCell(<<"-","5",".","0","0">>)},
     {StrCell(<<"3",".","0","0">>), StrCell(<<"1",",","2","3","4",".","5","6">>)} >>

\* The column layouts: all six columns, or all but one of the required five.
ColumnLayouts == {<<1, 2, 3, 4, 5, 6>>, <<2, 3, 4, 5, 6>>, <<1, 2, 4, 5, 6>>,
                  <<1, 2, 3, 5, 6>>, <<1, 2, 3, 4, 6>>, <<1, 2, 3, 4, 5>>}

HeaderRowOf(layout) == [c \in 1..Len(layout) |-> StrCell(HeaderTexts[layout[c]])]

\* The data rows of a layout from its column c on.
RECURSIVE DataRowsFromColumn(_, _)
DataRowsFromColumn(layout, c) ==
  IF c > Len(layout) THEN {<<>>}
  ELSE {<<cell>> \o rest : cell \in ColumnCells[layout[c]], rest \in DataRowsFromColumn(layout, c + 1)}

DataRowsOf(layout) == DataRowsFromColumn(layout, 1)

Preambles == {<<>>, << <<StrCell(<<"L","E","D","G","E","R"," ","2","0","2","4">>)>>, <<>> >>}

\* An optional title block, the header row, then up to MaxDataRows data rows.
Tables ==
  UNION {{pre \o <<HeaderRowOf(layout)>> \o data :
            pre \in Preambles, data \in SeqsUpTo(DataRowsOf(layout), MaxDataRows)} :
         layout \in ColumnLayouts}

\* ledger.csv, Ledger.XLSX, b.Xls; ledger.pdf, ledger.csv.txt, "ledger." and
\* the names without a dot ledger and csv
Filenames == {<<"l","e","d","g","e","r",".","c","s","v">>,
              <<"L","e","d","g","e","r",".","X","L","S","X">>,
              <<"b",".","X","l","s">>,
              <<"l","e","d","g","e","r",".","p","d","f">>,
              <<"l","e","d","g","e","r",".","c","s","v",".","t","x","t">>,
              <<"l","e","d","g","e","r",".">>,
              <<"l","e","d","g","e","r">>,
              <<"c","s","v">>}

\* The text of a cell in a CSV file: quoted when it holds a comma or a quote.
RECURSIVE DoubleQuotes(_)
DoubleQuotes(s) ==
  IF s = <<>> THEN <<>>
  ELSE (IF Head(s) = "\"" THEN <<"\"", "\"">> ELSE <<Head(s)>>) \o DoubleQuotes(Tail(s))

CsvCellText(cell) ==
  LET s == JSString(cell)
  IN IF \E i \in 1..Len(s) : s[i] \in {",", "\""}
       THEN <<"\"">> \o DoubleQuotes(s) \o <<"\"">>
       ELSE s

\* The bytes of the table written as CSV, decoded as utf8.
CsvTextOf(table) ==
  Join([i \in 1..Len(table) |->
          Join([c \in 1..Len(table[i]) |-> CsvCellText(table[i][c])], <<",">>)],
       <<"\n">>)

LoadInit ==
  /\ AggIdle
  /\ PdfIdle
  /\ ParseIdle
  /\ RelIdle
  /\ filename \in Filenames
  /\ content \in {[empty |-> TRUE, table |-> <<>>]} \cup {[empty |-> FALSE, table |-> tb] : tb \in Tables}
  /\ loadPc = "call"
  /\ outcome = Returned(<<>>)

\* loadFmsecLedgerRowsFromBuffer({ filename, buffer })
Load ==
  /\ loadPc = "call"
  /\ outcome' = loadFmsecLedgerRowsFromBuffer(filename, content.empty, CsvTextOf(content.table), content.table)
  /\ loadPc' = "settled"
  /\ UNCHANGED <<filename, content>>
  /\ UNCHANGED <<aggVars, pdfVars, parseVars, relVars>>

LoadNext == Load

SpecLoad == LoadInit /\ [][LoadNext]_vars

-----------------------------------------------------------------------------
(* The statement-text adapter as a state machine: one text, one call       *)

MaxLines == 3

\* Lines of a statement: transaction start lines (the last with a month 13),
\* an amount line, a blank line, a description line, the three section-end
\* markers and the two column-header lines.
StatementLines ==
  { <<"0","1","/","1","6","/","2","0","2","4"," ","O","R","-","1"," ","D","e","p","o","s","i","t">>,
    <<"0","2","/","0","5","/","2","0","2","4"," ","C","M","-","2","2"," ","C","a","s","h"," ","D","i","v","i","d","e","n","d">>,
    <<"1","3","/","4","5","/","2","0","2","4"," ","O","R","-","3"," ","X">>,
    <<"0",".","0","0","0","0"," ","(","1",",","5","0","0",".","0","0",")"," ","P","H","P"," ","9",".","0","0">>,
    <<>>,
    <<"R","e","f"," ","7","7">>,
    <<"\f","E","N","D","I","N","G"," "," ","S","E","C","U","R","I","T","Y"," ","P","O","S","I","T","I","O","N">>,
    <<" ","L"," ","E"," ","G"," ","E"," ","N"," ","D">>,
    <<"T","h","i","s"," ","i","s"," ","a"," ","c","o","m","p","u","t","e","r"," ","g","e","n","e","r","a","t","e","d"," ","s","t","a","t","e","m","e","n","t">>,
    <<"D","A","T","E"," ","R","E","F","N","O"," ","T","E","X","T"," ","P","R","I","C","E"," ","D","E","B","I","T">>,
    <<"C","R","E","D","I","T"," ","B","A","L","A","N","C","E">> }

PdfInit ==
  /\ AggIdle
  /\ LoadIdle
  /\ ParseIdle
  /\ RelIdle
  /\ pdfText \in {Join(ls, <<"\n">>) : ls \in SeqsUpTo(StatementLines, MaxLines)}
  /\ lines = <<>>
  /\ li = 0
  /\ scan = InitialScan
  /\ pdfPc = "split"
  /\ pdfOutcome = Returned(<<>>)

\* const text = ...; const lines = text.split(/\r?\n/)
Split ==
  /\ pdfPc = "split"
  /\ lines' = PdfLinesOf(pdfText)
  /\ pdfPc' = "loop"
  /\ UNCHANGED <<pdfText, li, scan, pdfOutcome>>
  /\ UNCHANGED <<aggVars, loadVars, parseVars, relVars>>

\* for (const line of lines) { ... }: one iteration
ReadLine ==
  /\ pdfPc = "loop"
  /\ ~scan.stopped
  /\ li < Len(lines)
  /\ scan' = ScanLine(scan, lines[li + 1])
  /\ li' = li + 1
  /\ UNCHANGED <<pdfText, lines, pdfPc, pdfOutcome>>
  /\ UNCHANGED <<aggVars, loadVars, parseVars, relVars>>

\* the code after the loop, reached at the end of the lines or by the break
Finish ==
  /\ pdfPc = "loop"
  /\ scan.stopped \/ li = Len(lines)
  /\ pdfOutcome' = AfterScan(scan)
  /\ pdfPc' = "done"
  /\ UNCHANGED <<pdfText, lines, li, scan>>
  /\ UNCHANGED <<aggVars, loadVars, parseVars, relVars>>

PdfNext == Split \/ ReadLine \/ Finish

SpecPdf == PdfInit /\ [][PdfNext]_vars

-----------------------------------------------------------------------------
(* The parsers as a state machine: one argument, one call                  *)

\* The texts of amount cells: "(1,234.56)", "( 5.00 )", "(0.00)", "(-5.00)",
\* "(12)", "5.00", "-5.00", "1,234.56", "-", " - ", "", "abc", "(abc)", "()",
\* "(1.2.3)", "(5".  `wrapped` says whether the text without white space
\* stands in parentheses, `finite` whether what is left without parentheses
\* and commas reads as a number, `inner` that number in centavos.
AmountInputs ==
  { [text |-> <<"(","1",",","2","3","4",".","5","6",")">>, wrapped |-> TRUE, finite |-> TRUE, inner |-> 123456],
    [text |-> <<"("," ","5",".","0","0"," ",")">>, wrapped |-> TRUE, finite |-> TRUE, inner |-> 500],
    [text |-> <<"(","0",".","0","0",")">>, wrapped |-> TRUE, finite |-> TRUE, inner |-> 0],
    [text |-> <<"(","-","5",".","0","0",")">>, wrapped |-> TRUE, finite |-> TRUE, inner |-> -500],
    [text |-> <<"(","1","2",")">>, wrapped |-> TRUE, finite |-> TRUE, inner |-> 1200],
    [text |-> <<"5",".","0","0">>, wrapped |-> FALSE, finite |-> TRUE, inner |-> 500],
    [text |-> <<"-","5",".","0","0">>, wrapped |-> FALSE, finite |-> TRUE, inner |-> -500],
    [text |-> <<"1",",","2","3","4",".","5","6">>, wrapped |-> FALSE, finite |-> TRUE, inner |-> 123456],
    [text |-> <<"(","5">>, wrapped |-> FALSE, finite |-> TRUE, inner |-> 500],
    [text |-> <<"-">>, wrapped |-> FALSE, finite |-> FALSE, inner |-> 0],
    [text |-> <<" ","-"," ">>, wrapped |-> FALSE, finite |-> FALSE, inner |-> 0],
    [text |-> <<>>, wrapped |-> FALSE, finite |-> FALSE, inner |-> 0],
    [text |-> <<"a","b","c">>, wrapped |-> FALSE, finite |-> FALSE, inner |-> 0],
    [text |-> <<"(","a","b","c",")">>, wrapped |-> TRUE, finite |-> FALSE, inner |-> 0],
    [text |-> <<"(",")">>, wrapped |-> TRUE, finite |-> FALSE, inner |-> 0],
    [text |-> <<"(","1",".","2",".","3",")">>, wrapped |-> TRUE, finite |-> FALSE, inner |-> 0] }

TwoDigits(n) == <<Digits[(n \div 10) + 1], Digits[(n % 10) + 1]>>

\* The text NN/MM/YYYY
DateToken(nn, mm, yyyy) == TwoDigits(nn) \o <<"/">> \o TwoDigits(mm) \o <<"/">> \o NatText(yyyy)

\* Tokens NN/MM/YYYY with both parts in 01..12 (shape "both"), tokens of that
\* shape with a part outside 01..12 (shape "strict"), and the texts
\* "7/3/2024", "07-03-2024", "07/03/24", "2024/07/03", "07/03/2024x",
\* "07/03/20245", "0a/03/2024" and "" that are not of that shape ("loose").
DateInputs ==
  { [text |-> DateToken(nn, mm, yyyy), shape |-> "both", nn |-> nn, mm |-> mm, yyyy |-> yyyy] :
      nn \in {1, 2, 7, 12}, mm \in {1, 2, 7, 12}, yyyy \in {1999, 2024} }
  \cup
  { [text |-> DateToken(nn, mm, 2024), shape |-> "strict", nn |-> nn, mm |-> mm, yyyy |-> 2024] :
      nn \in {0, 13, 31}, mm \in {0, 2, 31} }
  \cup
  { [text |-> tx, shape |-> "loose", nn |-> 0, mm |-> 0, yyyy |-> 0] :
      tx \in { <<"7","/","3","/","2","0","2","4">>,
               <<"0","7","-","0","3","-","2","0","2","4">>,
               <<"0","7","/","0","3","/","2","4">>,
               <<"2","0","2","4","/","0","7","/","0","3">>,
               <<"0","7","/","0","3","/","2","0","2","4","x">>,
               <<"0","7","/","0","3","/","2","0","2","4","5">>,
               <<"0","a","/","0","3","/","2","0","2","4">>,
               <<>> } }

\* The codes of a statement reference, as written and in upper case.
BlockCodes ==
  { [name |-> "BI", text |-> <<"B","I">>], [name |-> "SI", text |-> <<"S","I">>],
    [name |-> "IN", text |-> <<"I","N">>], [name |-> "DM", text |-> <<"D","M">>],
    [name |-> "CM", text |-> <<"C","M">>], [name |-> "OR", text |-> <<"O","R">>],
    [name |-> "OR", text |-> <<"o","r">>], [name |-> "DR", text |-> <<"D","R">>] }

\* Descriptions, each with the kind of description it is.
BlockDescriptions ==
  { [kind |-> "stock dividend", text |-> <<"S","t","o","c","k"," ","D","i","v","i","d","e","n","d"," ","X","Y","Z">>],
    [kind |-> "bond purchase", text |-> <<"P","u","r","c","h","a","s","e"," ","o","f"," ","R","T","B"," ","5">>],
    [kind |-> "bond purchase", text |-> <<"P","h","i","l","i","p","p","i","n","e"," ","G","o","v","e","r","n","m","e","n","t">>],
    [kind |-> "bond purchase", text |-> <<"B","o","n","d"," ","X","Y","Z">>],
    [kind |-> "cash dividend", text |-> <<"C","a","s","h"," ","D","i","v","i","d","e","n","d"," ","X","Y","Z">>],
    [kind |-> "coupon payment", text |-> <<"C","o","u","p","o","n"," ","P","a","y","m","e","n","t">>],
    [kind |-> "future transaction", text |-> <<"F","u","t","u","r","e"," ","T","r","a","n","s","a","c","t","i","o","n"," ","-"," ","X","Y","Z">>],
    [kind |-> "other", text |-> <<"N","o","t"," ","a"," ","F","u","t","u","r","e"," ","T","r","a","n","s","a","c","t","i","o","n">>],
    [kind |-> "other", text |-> <<"D","e","p","o","s","i","t">>] }

\* "0.0000 (1,500.00) PHP 9.00": the movement is the amount before the last
AmountLine ==
  <<"0",".","0","0","0","0"," ","(","1",",","5","0","0",".","0","0",")"," ","P","H","P"," ","9",".","0","0">>

\* The lines of a block: "01/16/2024 <code>-1 <description>" and, when the
\* block has one, the amount line.
BlockLinesOf(code, description, withAmount) ==
  << <<"0","1","/","1","6","/","2","0","2","4"," ">> \o code.text \o <<"-","1"," ">> \o description.text >>
    \o (IF withAmount THEN <<AmountLine>> ELSE <<>>)

ParseInputs ==
  { [fn |-> "parseAmount", in |-> a] : a \in AmountInputs }
  \cup { [fn |-> "parseLedgerDate", in |-> dt] : dt \in DateInputs }
  \cup { [fn |-> "parsePdfDateMmDdYyyy", in |-> dt] : dt \in DateInputs }
  \cup { [fn |-> "parseTransactionBlock", in |-> [code |-> c, description |-> ds, withAmount |-> w]] :
           c \in BlockCodes, ds \in BlockDescriptions, w \in BOOLEAN }

ParseInit ==
  /\ AggIdle
  /\ LoadIdle
  /\ PdfIdle
  /\ RelIdle
  /\ arg \in ParseInputs
  /\ ret = Nul
  /\ fnPc = "call"

\* parseAmount(text)
CallParseAmount ==
  /\ fnPc = "call"
  /\ arg.fn = "parseAmount"
  /\ ret' = parseAmount(StrCell(arg.in.text))
  /\ fnPc' = "done"
  /\ UNCHANGED arg
  /\ UNCHANGED <<aggVars, loadVars, pdfVars, relVars>>

\* parseLedgerDate(text)
CallParseLedgerDate ==
  /\ fnPc = "call"
  /\ arg.fn = "parseLedgerDate"
  /\ ret' = parseLedgerDate(StrCell(arg.in.text))
  /\ fnPc' = "done"
  /\ UNCHANGED arg
  /\ UNCHANGED <<aggVars, loadVars, pdfVars, relVars>>

\* parsePdfDateMmDdYyyy(text)
CallParsePdfDate ==
  /\ fnPc = "call"
  /\ arg.fn = "parsePdfDateMmDdYyyy"
  /\ ret' = parsePdfDateMmDdYyyy(arg.in.text)
  /\ fnPc' = "done"
  /\ UNCHANGED arg
  /\ UNCHANGED <<aggVars, loadVars, pdfVars, relVars>>

\* parseTransactionBlock(blockLines, {}): <<>> for null, <<row>> for a row
CallParseTransactionBlock ==
  /\ fnPc = "call"
  /\ arg.fn = "parseTransactionBlock"
  /\ ret' = parseTransactionBlock(BlockLinesOf(arg.in.code, arg.in.description, arg.in.withAmount), Nul, Nul)
  /\ fnPc' = "done"
  /\ UNCHANGED arg
  /\ UNCHANGED <<aggVars, loadVars, pdfVars, relVars>>

ParseNext ==
  CallParseAmount \/ CallParseLedgerDate \/ CallParsePdfDate \/ CallParseTransactionBlock

SpecParse == ParseInit /\ [][ParseNext]_vars

-----------------------------------------------------------------------------
(* A date from a parser to the aggregator, under every process timezone    *)

\* Whole hours the process timezone may be ahead of UTC (UTC-12 .. UTC+14).
TimeZones == -12..14

\* Spreadsheet serials and statement date texts, each with the year and the
\* month (1..12) of the calendar date it denotes: 1 January, 16 January,
\* 31 January, 29 February, 1 March and 31 December 2024, 31 December 2023.
ZoneInputs ==
  { [source |-> "serial", serial |-> 45292, text |-> <<>>, y |-> 2024, m |-> 1],
    [source |-> "serial", serial |-> 45307, text |-> <<>>, y |-> 2024, m |-> 1],
    [source |-> "serial", serial |-> 45322, text |-> <<>>, y |-> 2024, m |-> 1],
    [source |-> "serial", serial |-> 45351, text |-> <<>>, y |-> 2024, m |-> 2],
    [source |-> "serial", serial |-> 45352, text |-> <<>>, y |-> 2024, m |-> 3],
    [source |-> "serial", serial |-> 45657, text |-> <<>>, y |-> 2024, m |-> 12],
    [source |-> "serial", serial |-> 45291, text |-> <<>>, y |-> 2023, m |-> 12],
    [source |-> "text", serial |-> 0, text |-> DateToken(1, 1, 2024), y |-> 2024, m |-> 1],
    [source |-> "text", serial |-> 0, text |-> DateToken(1, 16, 2024), y |-> 2024, m |-> 1],
    [source |-> "text", serial |-> 0, text |-> DateToken(1, 31, 2024), y |-> 2024, m |-> 1],
    [source |-> "text", serial |-> 0, text |-> DateToken(2, 29, 2024), y |-> 2024, m |-> 2],
    [source |-> "text", serial |-> 0, text |-> DateToken(3, 1, 2024), y |-> 2024, m |-> 3],
    [source |-> "text", serial |-> 0, text |-> DateToken(12, 31, 2024), y |-> 2024, m |-> 12],
    [source |-> "text", serial |-> 0, text |-> DateToken(12, 31, 2023), y |-> 2023, m |-> 12] }

ZoneInit ==
  /\ LoadIdle
  /\ PdfIdle
  /\ RelIdle
  /\ tz \in TimeZones
  /\ arg \in {[fn |-> "resolveDate", in |-> zi] : zi \in ZoneInputs}
  /\ year \in {0, arg.in.y}
  /\ ret = Nul
  /\ fnPc = "call"
  /\ rows = <<>>
  /\ idx = 0
  /\ byMonth = EmptyMap
  /\ pc = "idle"
  /\ result = <<>>
  /\ totals = [deposit |-> 0, withdraw |-> 0, dividends |-> 0]

\* A deposit row dated by an adapter: coerceLedgerRow's parseLedgerDate on a
\* serial cell, or parseTransactionBlock's parsePdfDateMmDdYyyy on the date of
\* a start line.
ResolveDate ==
  /\ fnPc = "call"
  /\ arg.fn = "resolveDate"
  /\ ret' = IF arg.in.source = "serial"
              THEN parseLedgerDate(NumCell(arg.in.serial * 100))
              ELSE parsePdfDateMmDdYyyy(arg.in.text)
  /\ rows' = << [CD |-> <<"O","R">>, PARTICULARS |-> FutureTransactionText, DATE |-> ret',
                 PHP_DEBIT |-> Debit200, PHP_CREDIT |-> Credit300] >>
  /\ fnPc' = "done"
  /\ pc' = "loop"
  /\ UNCHANGED <<arg, year, tz, idx, byMonth, result, totals>>
  /\ UNCHANGED <<loadVars, pdfVars, relVars>>

ZoneNext == ResolveDate \/ Iterate \/ Return \/ Totals

SpecZone == ZoneInit /\ [][ZoneNext]_vars

-----------------------------------------------------------------------------
(* pdf.js renderPdfFromHtml and fmsecLedgerPdf pdfBufferToText: the calls  *)
(* that hold a browser or a temporary directory.  An awaited operation of  *)
(* a library or of the operating system may resolve or reject.             *)

Fulfilled(v) == [kind |-> "fulfilled", value |-> v]

Rejected(msg) == [kind |-> "rejected", value |-> msg]

\* a ?? b for an option that is "undefined" when not given
OptionOr(a, b) == IF a = "undefined" THEN b ELSE a

\* The buffer page.pdf resolves with, given by what it was asked to print.
PdfOf(html, options) ==
  [ html |-> html,
    format |-> OptionOr(options.format, "A4"),
    printBackground |-> OptionOr(options.printBackground, "true"),
    margin |-> OptionOr(options.margin, "24px") ]

\* /pdftotext.*not found|ENOENT/i.test(msg)
MentionsMissingPdftotext(msg) ==
  LET up == toUpperCase(msg)
  IN \/ includes(up, <<"E","N","O","E","N","T">>)
     \/ \E p \in 1..Len(up) : \E q \in (p + 9)..Len(up) :
          /\ StartsWithAt(up, <<"P","D","F","T","O","T","E","X","T">>, p)
          /\ StartsWithAt(up, <<"N","O","T"," ","F","O","U","N","D">>, q)
          /\ \A k \in (p + 9)..(q - 1) : up[k] \notin {"\n", "\r"}

\* The Error the catch block of pdfBufferToText throws for the error `msg`.
CatchError(msg) ==
  IF MentionsMissingPdftotext(msg)
    THEN Rejected(<<"p","d","f","t","o","t","e","x","t"," ","i","s"," ","r","e","q","u","i","r","e","d"," ","t","o"," ","p","a","r","s","e"," ","P","D","F"," ","u","p","l","o","a","d","s"," ","(","i","n","s","t","a","l","l"," ","p","o","p","p","l","e","r","-","u","t","i","l","s",")">>)
    ELSE Rejected(<<"F","a","i","l","e","d"," ","t","o"," ","e","x","t","r","a","c","t"," ","P","D","F"," ","t","e","x","t",":"," ">> \o msg)

SettleAfterRm_RmErrorWins(pend, rmError, rmOk) == IF rmOk THEN pend ELSE Rejected(rmError)

\* finally { await fs.rm(...).catch(() => {}) }: what the call settles with
SettleAfterRm(pend, rmError, rmOk) == pend

\* finally { await browser.close() }: what the call settles with
SettleAfterClose(pend, closeError, closeOk) == IF closeOk THEN pend ELSE Rejected(closeError)

Htmls == {<<"<","h","1",">","R","e","p","o","r","t","<","/","h","1",">">>, <<>>}

RenderOptions ==
  [format : {"undefined", "Letter"}, printBackground : {"undefined", "true", "false"},
   margin : {"undefined", "0px"}]

\* Buffers: not a Buffer, an empty Buffer, a Buffer with bytes.
Buffers == {"not a buffer", "empty", "%PDF-1.4"}

\* Messages the rejections of this model carry.
ErrorMessages ==
  { <<"s","p","a","w","n"," ","p","d","f","t","o","t","e","x","t"," ","E","N","O","E","N","T">>,
    <<"/","b","i","n","/","s","h",":"," ","1",":"," ","p","d","f","t","o","t","e","x","t",":"," ","n","o","t"," ","f","o","u","n","d">>,
    <<"C","o","m","m","a","n","d"," ","f","a","i","l","e","d",":"," ","p","d","f","t","o","t","e","x","t"," ","-","l","a","y","o","u","t">>,
    <<"E","A","C","C","E","S",":"," ","p","e","r","m","i","s","s","i","o","n"," ","d","e","n","i","e","d">> }

\* What pdftotext writes to stdout.
Stdouts == {<<"0","1","/","1","6","/","2","0","2","4"," ","O","R","-","1"," ","D","e","p","o","s","i","t">>, <<>>}

RelInit ==
  /\ AggIdle
  /\ LoadIdle
  /\ PdfIdle
  /\ ParseIdle
  /\ job \in {[fn |-> "renderPdfFromHtml", html |-> h, options |-> o] : h \in Htmls, o \in RenderOptions}
            \cup {[fn |-> "pdfBufferToText", buffer |-> b] : b \in Buffers}
  /\ relPc = "start"
  /\ pending = [kind |-> "none"]
  /\ releases = 0
  /\ resource = "none"
  /\ settlement = [kind |-> "none"]

\* renderPdfFromHtml up to its first await: chromium.launch is called
RenderStart ==
  /\ relPc = "start"
  /\ job.fn = "renderPdfFromHtml"
  /\ relPc' = "launch"
  /\ UNCHANGED <<job, pending, releases, resource, settlement>>
  /\ UNCHANGED <<aggVars, loadVars, pdfVars, parseVars>>

\* chromium.launch settles; on success the try block calls browser.newPage()
Launch ==
  /\ relPc = "launch"
  /\ \E ok \in BOOLEAN : \E e \in ErrorMessages :
       IF ok
         THEN /\ resource' = "held"
              /\ relPc' = "newPage"
              /\ UNCHANGED settlement
         ELSE /\ settlement' = Rejected(e)
              /\ relPc' = "settled"
              /\ UNCHANGED resource
  /\ UNCHANGED <<job, pending, releases>>
  /\ UNCHANGED <<aggVars, loadVars, pdfVars, parseVars>>

\* browser.newPage() settles: page.setContent is called, or the finally block
\* is entered and browser.close() is called
NewPage ==
  /\ relPc = "newPage"
  /\ \E ok \in BOOLEAN : \E e \in ErrorMessages :
       IF ok
         THEN /\ relPc' = "setContent"
              /\ UNCHANGED <<pending, releases>>
         ELSE /\ pending' = Rejected(e)
              /\ releases' = releases + 1
              /\ relPc' = "close"
  /\ UNCHANGED <<job, resource, settlement>>
  /\ UNCHANGED <<aggVars, loadVars, pdfVars, parseVars>>

\* page.setContent settles: page.pdf is called, or browser.close()
SetContent ==
  /\ relPc = "setContent"
  /\ \E ok \in BOOLEAN : \E e \in ErrorMessages :
       IF ok
         THEN /\ relPc' = "pdf"
              /\ UNCHANGED <<pending, releases>>
         ELSE /\ pending' = Rejected(e)
              /\ releases' = releases + 1
              /\ relPc' = "close"
  /\ UNCHANGED <<job, resource, settlement>>
  /\ UNCHANGED <<aggVars, loadVars, pdfVars, parseVars>>

\* page.pdf settles: return pdfBuffer or the error, through the finally block
PagePdf ==
  /\ relPc = "pdf"
  /\ \E ok \in BOOLEAN : \E e \in ErrorMessages :
       pending' = IF ok THEN Fulfilled(PdfOf(job.html, job.options)) ELSE Rejected(e)
  /\ releases' = releases + 1
  /\ relPc' = "close"
  /\ UNCHANGED <<job, resource, settlement>>
  /\ UNCHANGED <<aggVars, loadVars, pdfVars, parseVars>>

\* browser.close() settles
Close ==
  /\ relPc = "close"
  /\ \E ok \in BOOLEAN : \E e \in ErrorMessages :
       /\ settlement' = SettleAfterClose(pending, e, ok)
       /\ resource' = IF ok THEN "released" ELSE "release failed"
  /\ relPc' = "settled"
  /\ UNCHANGED <<job, pending, releases>>
  /\ UNCHANGED <<aggVars, loadVars, pdfVars, parseVars>>

\* pdfBufferToText up to its first await: the buffer check, then fs.mkdtemp
ExtractStart ==
  /\ relPc = "start"
  /\ job.fn = "pdfBufferToText"
  /\ IF job.buffer \in {"not a buffer", "empty"}
       THEN /\ settlement' = Rejected(<<"M","i","s","s","i","n","g"," ","P","D","F"," ","d","a","t","a">>)
            /\ relPc' = "settled"
       ELSE /\ relPc' = "mkdtemp"
            /\ UNCHANGED settlement
  /\ UNCHANGED <<job, pending, releases, resource>>
  /\ UNCHANGED <<aggVars, loadVars, pdfVars, parseVars>>

\* fs.mkdtemp settles; on success the path is built (path.join and
\* crypto.randomUUID do not throw) and the try block calls fs.writeFile
Mkdtemp ==
  /\ relPc = "mkdtemp"
  /\ \E ok \in BOOLEAN : \E e \in ErrorMessages :
       IF ok
         THEN /\ resource' = "held"
              /\ relPc' = "writeFile"
              /\ UNCHANGED settlement
         ELSE /\ settlement' = Rejected(e)
              /\ relPc' = "settled"
              /\ UNCHANGED resource
  /\ UNCHANGED <<job, pending, releases>>
  /\ UNCHANGED <<aggVars, loadVars, pdfVars, parseVars>>

\* fs.writeFile settles: pdftotext is run, or the catch block throws its Error
\* and the finally block calls fs.rm
WriteFile ==
  /\ relPc = "writeFile"
  /\ \E ok \in BOOLEAN : \E e \in ErrorMessages :
       IF ok
         THEN /\ relPc' = "execFile"
              /\ UNCHANGED <<pending, releases>>
         ELSE /\ pending' = CatchError(e)
              /\ releases' = releases + 1
              /\ relPc' = "rm"
  /\ UNCHANGED <<job, resource, settlement>>
  /\ UNCHANGED <<aggVars, loadVars, pdfVars, parseVars>>

\* pdftotext ends: return String(stdout ?? '') or the catch block's Error,
\* through the finally block
ExecFile ==
  /\ relPc = "execFile"
  /\ \E ok \in BOOLEAN : \E e \in ErrorMessages : \E out \in Stdouts :
       pending' = IF ok THEN Fulfilled(out) ELSE CatchError(e)
  /\ releases' = releases + 1
  /\ relPc' = "rm"
  /\ UNCHANGED <<job, resource, settlement>>
  /\ UNCHANGED <<aggVars, loadVars, pdfVars, parseVars>>

\* fs.rm settles, its rejection caught by .catch(() => {})
Rm ==
  /\ relPc = "rm"
  /\ \E ok \in BOOLEAN : \E e \in ErrorMessages :
       /\ settlement' = SettleAfterRm(pending, e, ok)
       /\ resource' = IF ok THEN "released" ELSE "release failed"
  /\ relPc' = "settled"
  /\ UNCHANGED <<job, pending, releases>>
  /\ UNCHANGED <<aggVars, loadVars, pdfVars, parseVars>>

RelNext ==
  \/ RenderStart \/ Launch \/ NewPage \/ SetContent \/ PagePdf \/ Close
  \/ ExtractStart \/ Mkdtemp \/ WriteFile \/ ExecFile \/ Rm

SpecRelease == RelInit /\ [][RelNext]_vars

-----------------------------------------------------------------------------
(* The loading entry points together: an upload or a statement text        *)

EntryInit == LoadInit \/ PdfInit

EntryNext == LoadNext \/ PdfNext

SpecEntry == EntryInit /\ [][EntryNext]_vars

-----------------------------------------------------------------------------
(* Properties of the aggregation pass                                      *)

RECURSIVE SumSeq(_)
SumSeq(s) == IF s = <<>> THEN 0 ELSE Head(s) + SumSeq(Tail(s))

\* An absent amount counts as 0.
AmountOf(a) == IF a.null THEN 0 ELSE a.v

\* The rows of rs at the positions in keep, in order.
RECURSIVE SelectRows(_, _, _)
SelectRows(rs, keep, from) ==
  IF from > Len(rs) THEN <<>>
  ELSE (IF from \in keep THEN <<rs[from]>> ELSE <<>>) \o SelectRows(rs, keep, from + 1)

CodeOf(row) == toUpperCase(trim(row.CD))

\* The row has a valid date, of the target year when one is given.
Included(row) ==
  /\ row.DATE.kind = "date"
  /\ (year = 0 \/ getFullYear(row.DATE) = year)

IncludedIn(m) == {i \in 1..Len(rows) : Included(rows[i]) /\ getMonth(rows[i].DATE) = m}

\* <<deposit, withdraw, dividends>> of month m in a returned array, zeros when
\* the array has no bucket for m.
BucketFields(res, m) ==
  IF \E i \in 1..Len(res) : res[i].month = MONTH_LABELS[m + 1]
    THEN LET b == res[CHOOSE i \in 1..Len(res) : res[i].month = MONTH_LABELS[m + 1]]
         IN <<b.deposit, b.withdraw, b.dividends>>
    ELSE <<0, 0, 0>>

SumCredit(positions) ==
  SumSeq([i \in 1..Len(rows) |-> IF i \in positions THEN AmountOf(rows[i].PHP_CREDIT) ELSE 0])

SumDebit(positions) ==
  SumSeq([i \in 1..Len(rows) |-> IF i \in positions THEN AmountOf(rows[i].PHP_DEBIT) ELSE 0])

BuySellRows == {i \in 1..Len(rows) : CodeOf(rows[i]) \in {<<"B","I">>, <<"S","I">>}}

\* C1: the buckets have the deposit, withdraw and dividends they would have if
\* every row whose code (trimmed, upper-cased) is BI or SI were removed from
\* the input; a month that only buy/sell rows fall in has all three at 0.
C1_TradeRowsAddNothing ==
  pc = "done" =>
    LET without == computeMonthlyCashflow(SelectRows(rows, (1..Len(rows)) \ BuySellRows, 1), year)
    IN \A m \in 0..11 : BucketFields(result, m) = BucketFields(without, m)

\* a pass over a buy/sell row with debit and credit, of the reported year,
\* together with a row that does count
C1_Witness ==
  /\ pc = "done"
  /\ \E i \in BuySellRows :
       /\ Included(rows[i])
       /\ AmountOf(rows[i].PHP_DEBIT) # 0
       /\ AmountOf(rows[i].PHP_CREDIT) # 0
  /\ \E m \in 0..11 : BucketFields(result, m) # <<0, 0, 0>>

\* C2: with a target year the result is the 12 buckets Jan..Dec in calendar
\* order, and a month no included row falls in has all fields 0.
C2_TwelveMonthsInOrder ==
  (pc = "done" /\ year # 0) =>
    /\ Len(result) = 12
    /\ \A i \in 1..12 : result[i].month = MONTH_LABELS[i]
    /\ \A m \in 0..11 :
         IncludedIn(m) = {} =>
           <<result[m + 1].deposit, result[m + 1].withdraw, result[m + 1].dividends>> = <<0, 0, 0>>

\* a pass with a target year in which one month has activity
C2_Witness ==
  /\ pc = "done"
  /\ year # 0
  /\ \E m \in 0..11 : IncludedIn(m) # {} /\ BucketFields(result, m) # <<0, 0, 0>>

OtherReceiptRows == {i \in 1..Len(rows) : CodeOf(rows[i]) = <<"O","R">>}

FutureTransactionRows ==
  {i \in OtherReceiptRows :
     startsWith(toUpperCase(trim(rows[i].PARTICULARS)),
                <<"F","U","T","U","R","E"," ","T","R","A","N","S","A","C","T","I","O","N">>)}

\* C3: a month's deposit is the sum of PHP_CREDIT over the included rows of the
\* month whose code is OR and whose description starts with FUTURE
\* TRANSACTION; every included OR row, whatever its description, has its
\* PHP_DEBIT added to withdraw (withdraw is larger by the sum of their debits
\* than without the OR rows).
C3_DepositRule ==
  pc = "done" =>
    LET receipts == OtherReceiptRows
        deposits == FutureTransactionRows
        without  == computeMonthlyCashflow(SelectRows(rows, (1..Len(rows)) \ receipts, 1), year)
    IN \A m \in 0..11 :
         /\ BucketFields(result, m)[1] = SumCredit(IncludedIn(m) \cap deposits)
         /\ BucketFields(result, m)[2]
              = BucketFields(without, m)[2] + SumDebit(IncludedIn(m) \cap receipts)

\* a pass over an OR row that is a deposit and an OR row that is not, both
\* with a credit and a debit
C3_Witness ==
  /\ pc = "done"
  /\ \E i \in FutureTransactionRows, j \in OtherReceiptRows \ FutureTransactionRows :
       /\ Included(rows[i]) /\ Included(rows[j])
       /\ AmountOf(rows[i].PHP_CREDIT) # 0
       /\ AmountOf(rows[j].PHP_CREDIT) # 0
       /\ AmountOf(rows[j].PHP_DEBIT) # 0

DividendRows ==
  {i \in 1..Len(rows) :
     /\ CodeOf(rows[i]) = <<"C","M">>
     /\ \/ includes(toLowerCase(rows[i].PARTICULARS), <<"c","a","s","h"," ","d","i","v","i","d","e","n","d">>)
        \/ includes(toLowerCase(rows[i].PARTICULARS), <<"c","o","u","p","o","n"," ","p","a","y","m","e","n","t">>)}

\* C4: a month's dividends is the sum of PHP_CREDIT over the included CM rows
\* of the month whose description contains "cash dividend" or "coupon payment"
\* (so a CM row with neither adds nothing to it), and those rows add nothing
\* to deposit or withdraw, whatever their PHP_DEBIT.
C4_DividendRuleFirst ==
  pc = "done" =>
    LET dividendRows == DividendRows
        without == computeMonthlyCashflow(SelectRows(rows, (1..Len(rows)) \ dividendRows, 1), year)
    IN \A m \in 0..11 :
         /\ BucketFields(result, m)[3] = SumCredit(IncludedIn(m) \cap dividendRows)
         /\ BucketFields(result, m)[1] = BucketFields(without, m)[1]
         /\ BucketFields(result, m)[2] = BucketFields(without, m)[2]

\* a pass over a dividend row with a debit, and a CM row that is no dividend
C4_Witness ==
  /\ pc = "done"
  /\ \E i \in DividendRows :
       Included(rows[i]) /\ AmountOf(rows[i].PHP_DEBIT) # 0 /\ AmountOf(rows[i].PHP_CREDIT) # 0
  /\ \E j \in (1..Len(rows)) \ DividendRows : CodeOf(rows[j]) = <<"C","M">> /\ Included(rows[j])

ExcludedRows == {i \in 1..Len(rows) : ~Included(rows[i])}

\* C5: the result (which buckets, in which order, with which fields) is the one
\* for the input without the rows that have no valid date or, with a target
\* year, a date of another year.
C5_ExcludedRowsLeaveNoTrace ==
  pc = "done" =>
    result = computeMonthlyCashflow(SelectRows(rows, (1..Len(rows)) \ ExcludedRows, 1), year)

\* a pass over a row of another year, or without a date, and a row that counts
C5_Witness ==
  /\ pc = "done"
  /\ \E i \in ExcludedRows : rows[i].DATE.kind = "date"
  /\ \E j \in (1..Len(rows)) \ ExcludedRows : BucketFields(result, getMonth(rows[j].DATE)) # <<0, 0, 0>>

FieldsAt(map, m) ==
  IF m \in DOMAIN map THEN <<map[m].deposit, map[m].withdraw, map[m].dividends>> ELSE <<0, 0, 0>>

\* C9: during a pass no field of any bucket is ever smaller after a row than
\* it was before it (a bucket not yet created counts as 0, 0, 0).
C9_FieldsNeverDecrease ==
  [][\A m \in 0..11 : \A f \in 1..3 : FieldsAt(byMonth', m)[f] >= FieldsAt(byMonth, m)[f]]_vars

\* The included deposit rows that carry both a debit and a credit above 0.
TwoSidedDeposits ==
  {i \in FutureTransactionRows :
     Included(rows[i]) /\ AmountOf(rows[i].PHP_DEBIT) > 0 /\ AmountOf(rows[i].PHP_CREDIT) > 0}

\* The included rows that are neither dividends nor trades.
CashRows == {i \in 1..Len(rows) : Included(rows[i])} \ (DividendRows \cup BuySellRows)

\* C16: a row that is neither a dividend nor a trade, with code OR, a
\* description starting with FUTURE TRANSACTION and both PHP_DEBIT > 0 and
\* PHP_CREDIT > 0 adds its credit to deposit and its debit to withdraw of its
\* month in the same pass, and both reach the totals: the month's deposit and
\* withdraw are those of the pass without the row plus its credit and its
\* debit, and the totals are the sums over the deposit rows' credits and over
\* all the cash rows' debits.
C16_DepositAndWithdrawTogether ==
  /\ pc \in {"done", "totalled"} =>
       \A i \in TwoSidedDeposits :
         LET without == computeMonthlyCashflow(SelectRows(rows, (1..Len(rows)) \ {i}, 1), year)
             m == getMonth(rows[i].DATE)
         IN /\ BucketFields(result, m)[1] = BucketFields(without, m)[1] + rows[i].PHP_CREDIT.v
            /\ BucketFields(result, m)[2] = BucketFields(without, m)[2] + rows[i].PHP_DEBIT.v
  /\ pc = "totalled" =>
       /\ totals.deposit = SumCredit(CashRows \cap FutureTransactionRows)
       /\ totals.withdraw = SumDebit(CashRows)

\* The month number of a bucket.
MonthNumber(bucket) == CHOOSE m \in 0..11 : MONTH_LABELS[m + 1] = bucket.month

DatedRows == {i \in 1..Len(rows) : rows[i].DATE.kind = "date"}

\* C19: without a target year the result has one bucket for every month number
\* in which a row with a valid date falls (a trade or a row that adds 0
\* included), in ascending month number without duplicates, and a bucket sums
\* the rows of its month number from every year.
C19_BucketsByMonthNumber ==
  (pc = "done" /\ year = 0) =>
    /\ {MonthNumber(result[k]) : k \in 1..Len(result)} = {getMonth(rows[i].DATE) : i \in DatedRows}
    /\ \A k \in 1..Len(result) : \A l \in 1..Len(result) :
         k < l => MonthNumber(result[k]) < MonthNumber(result[l])
    /\ \A m \in 0..11 :
         LET inMonth == {i \in DatedRows : getMonth(rows[i].DATE) = m}
         IN BucketFields(result, m) =
              << SumCredit(inMonth \cap CashRows \cap FutureTransactionRows),
                 SumDebit(inMonth \cap CashRows),
                 SumCredit(inMonth \cap DividendRows) >>

\* a pass without a target year over a January row of last year and a January
\* row of this year: one bucket
C19_Witness ==
  /\ pc = "done"
  /\ year = 0
  /\ Len(rows) = 2
  /\ rows[1].DATE = Jan20LastYear
  /\ rows[2].DATE = Jan16
  /\ Len(result) = 1
  /\ BucketFields(result, 0) # <<0, 0, 0>>

\* the totals of a pass over a deposit row with a debit and a credit
C16_Witness ==
  /\ pc = "totalled"
  /\ TwoSidedDeposits # {}
  /\ totals.deposit > 0
  /\ totals.withdraw > 0
-----------------------------------------------------------------------------
(* Properties of the loader                                                *)

\* The rows the loader call handed back (none when it threw).
LoadedRows == IF loadPc = "settled" /\ ~outcome.threw THEN outcome.rows ELSE <<>>

\* C8: every canonical row an adapter produces has PHP_DEBIT and PHP_CREDIT
\* that are absent or non-negative, whatever the source cell held
\* (parenthesised and minus-signed amounts included).
C8_AmountsAreMagnitudes ==
  \A i \in 1..Len(LoadedRows) :
    /\ LoadedRows[i].PHP_DEBIT.null \/ LoadedRows[i].PHP_DEBIT.v >= 0
    /\ LoadedRows[i].PHP_CREDIT.null \/ LoadedRows[i].PHP_CREDIT.v >= 0

\* The header row of the uploaded table and the columns it carries.
UploadedLayout ==
  CHOOSE layout \in ColumnLayouts :
    \E i \in 1..Len(content.table) : content.table[i] = HeaderRowOf(layout)

\* The required columns by their position in HeaderTexts.
RequiredPositions == <<1, 3, 4, 5, 6>>

LackingColumns ==
  SelectSeq(RequiredColumns,
            LAMBDA name : \A c \in 1..Len(UploadedLayout) :
                            \A k \in 1..5 : RequiredColumns[k] = name => UploadedLayout[c] # RequiredPositions[k])

\* The call got as far as an adapter, and the table has a data row, which
\* carries a code if the table has a CD column.
Dispatched ==
  /\ loadPc = "settled"
  /\ ~content.empty
  /\ getExtension(filename) \in {<<"c","s","v">>, <<"x","l","s","x">>, <<"x","l","s">>}
  /\ content.table[Len(content.table)] # HeaderRowOf(UploadedLayout)
  /\ UploadedLayout[1] = 1 => content.table[Len(content.table)][1] = StrCell(<<"O","R">>)

\* C10: after adapter dispatch, an upload whose header lacks one of CD, DATE,
\* PARTICULARS, PHP_DEBIT, PHP_CREDIT fails with the error that names the
\* lacking columns, and an upload whose header has all five passes, empty
\* amounts included.
C10_MissingColumnsAreNamed ==
  Dispatched =>
    IF LackingColumns # <<>>
      THEN outcome = Thrown("Missing required columns", LackingColumns)
      ELSE ~outcome.threw /\ Len(outcome.rows) = 1
-----------------------------------------------------------------------------
(* Properties of the statement-text adapter                                *)

\* The index of the first section-end marker line read while a block is
\* open; 0 when there is none.
MarkerIndex ==
  FirstOf({k \in 1..Len(lines) :
             /\ shouldEndTransactionSection(lines[k])
             /\ ScanLines(InitialScan, SubSeq(lines, 1, k - 1), 1).block # <<>>})

\* The text up to the line break before line k.
TextBeforeLine(k) == Join(SubSeq(SplitLines(pdfText), 1, k - 1), <<"\n">>)

\* The row of the block open before the marker at line k, if it has one, is
\* the last row of the result.
OpenBlockRowIsLast(row) ==
  row # <<>> /\ row[1].CD # <<>> =>
    ~pdfOutcome.threw /\ pdfOutcome.rows[Len(pdfOutcome.rows)] = row[1]

EndsAsTruncatedAt(k, before) ==
  /\ pdfOutcome = parseFmsecLedgerRowsFromPdfText(TextBeforeLine(k))
  /\ pdfOutcome = parseFmsecLedgerRowsFromPdfText(TextBeforeLine(k) \o <<"\n">>)
  /\ OpenBlockRowIsLast(parseTransactionBlock(before.block, before.debitCol, before.creditCol))

EndsAsTruncated(k) ==
  k # 0 => EndsAsTruncatedAt(k, ScanLines(InitialScan, SubSeq(lines, 1, k - 1), 1))

\* C6: when a section-end marker line is read while a block is open, the
\* result is the result for the text truncated just before the marker line
\* (with or without the line break in front of it), whatever follows the
\* marker, and the row of the block that was open, if it has one, is the last
\* row of the result.
C6_NothingAfterSectionEnd == pdfPc = "done" => EndsAsTruncated(MarkerIndex)

\* a marker closed a block that gave a row, and a transaction start line
\* after the marker gave none
C6_Witness ==
  /\ pdfPc = "done"
  /\ MarkerIndex # 0
  /\ \E k \in (MarkerIndex + 1)..Len(lines) :
       parseTransactionBlock(<<lines[k]>>, Nul, Nul) # <<>>
  /\ Len(pdfOutcome.rows) = 1

\* The index of the line that opened the block now open.
BlockStart ==
  LET starts == {j \in 1..li : LineBranch(<<>>, lines[j]) = "start"}
  IN CHOOSE j \in starts : \A k \in starts : k <= j

BlockOpen == pdfPc = "loop" /\ scan.block # <<>>

-----------------------------------------------------------------------------
(* The two ledger adapters side by side                                    *)

HeaderNotFound(res) ==
  res.threw /\ res.message = "Could not find header row (CD, NUMBER, DATE, ...) in CSV"

\* What the adapter that did not take the upload makes of the same table.
OtherAdapterOutcome ==
  IF getExtension(filename) = <<"c","s","v">>
    THEN parseLedgerRowsFromWorksheet(content.table)
    ELSE loadFmsecLedgerRowsFromCsvText(CsvTextOf(content.table))

AdapterRan ==
  /\ loadPc = "settled"
  /\ ~content.empty
  /\ getExtension(filename) \in {<<"c","s","v">>, <<"x","l","s","x">>, <<"x","l","s">>}

\* C11: the delimited-text adapter and the tabular adapter locate the header by
\* the same rule, so for one table of cells, given as CSV lines or as worksheet
\* rows, either both fail with the header-not-found error or neither does.
C11_SameHeaderRule ==
  AdapterRan => (HeaderNotFound(outcome) <=> HeaderNotFound(OtherAdapterOutcome))

-----------------------------------------------------------------------------
(* The loader's own errors                                                 *)

\* The names whose text after the last "." is csv, xlsx or xls in lower case.
SupportedNames ==
  {<<"l","e","d","g","e","r",".","c","s","v">>,
   <<"L","e","d","g","e","r",".","X","L","S","X">>,
   <<"b",".","X","l","s">>}

MissingData == Thrown("Missing file data", <<>>)

UnsupportedFormat == Thrown("Unsupported file type. Upload a .csv or .xlsx", <<>>)

\* C12: an empty (or non-Buffer) upload fails with the missing-data error under
\* every file name; a non-empty upload fails with the unsupported-format error
\* exactly when the lower-cased text after the name's last "." is none of csv,
\* xlsx, xls (a name without "." included); neither failure carries rows or
\* any adapter's error.
C12_LoaderErrors ==
  loadPc = "settled" =>
    IF content.empty THEN outcome = MissingData
    ELSE /\ outcome = UnsupportedFormat <=> filename \notin SupportedNames
         /\ outcome # MissingData

\* A non-empty upload under a name without a dot was refused as unsupported.
C12_Witness ==
  /\ loadPc = "settled"
  /\ ~content.empty
  /\ filename = <<"c","s","v">>
  /\ outcome = UnsupportedFormat

-----------------------------------------------------------------------------
(* Properties of the parsers                                               *)

Returns(fn) == fnPc = "done" /\ arg.fn = fn

\* The movement amount of AmountLine, 1,500.00, in centavos.
AmountLineMovement == Num(150000)

NoCashflowBlock(code, kind) ==
  \/ code \in {"BI", "SI"}
  \/ code = "IN" /\ kind = "stock dividend"
  \/ code = "DM" /\ kind = "bond purchase"

CreditBlock(code, kind) ==
  \/ code = "CM" /\ kind \in {"cash dividend", "coupon payment"}
  \/ code = "OR" /\ kind = "future transaction"

\* C13: a block with a movement amount m > 0 gets debit = credit = 0 when it is
\* a trade (BI, SI), a stock dividend under IN or a bond purchase under DM;
\* otherwise credit = m, debit = 0 when it is a cash dividend or coupon
\* payment under CM or a future transaction under OR; otherwise debit = m,
\* credit = 0.  Every row has at most one of PHP_DEBIT, PHP_CREDIT non-zero.
C13_DebitCreditPriority ==
  Returns("parseTransactionBlock") =>
    /\ Len(ret) = 1
    /\ ret[1].PHP_DEBIT.v = 0 \/ ret[1].PHP_CREDIT.v = 0
    /\ arg.in.withAmount =>
         LET code == arg.in.code.name
             kind == arg.in.description.kind
         IN <<ret[1].PHP_DEBIT, ret[1].PHP_CREDIT>> =
              IF NoCashflowBlock(code, kind) THEN <<Num(0), Num(0)>>
              ELSE IF CreditBlock(code, kind) THEN <<Num(0), AmountLineMovement>>
              ELSE <<AmountLineMovement, Num(0)>>

\* A coupon payment under CM with its amount line was given its credit.
C13_Witness ==
  /\ Returns("parseTransactionBlock")
  /\ arg.in.withAmount
  /\ arg.in.code.name = "CM"
  /\ arg.in.description.kind = "coupon payment"
  /\ ret[1].PHP_CREDIT = AmountLineMovement

\* C14: for a text that stands in parentheses once white space is removed and
\* whose remainder without parentheses and commas reads as a finite number n,
\* parseAmount returns -|n|, a value <= 0; for a text that does not read as a
\* number it returns null; it never throws.
C14_ParenthesesGiveNegativeMagnitude ==
  Returns("parseAmount") =>
    /\ (arg.in.wrapped /\ arg.in.finite) =>
         /\ ~ret.null
         /\ ret.v <= 0
         /\ ret.v = (IF arg.in.inner < 0 THEN arg.in.inner ELSE 0 - arg.in.inner)
    /\ ~arg.in.finite => ret = Nul

LocalDay(date) == LocalFields(date).d

\* C15: for a token NN/MM/YYYY with NN and MM both in 01..12, parseLedgerDate
\* gives day NN of month MM and parsePdfDateMmDdYyyy gives day MM of month NN;
\* parsePdfDateMmDdYyyy gives null for a text that is not two digits, a slash,
\* two digits, a slash and four digits.  The years of the tokens are four
\* digits, not 0000.
C15_OppositeDateConventions ==
  /\ (Returns("parseLedgerDate") /\ arg.in.shape = "both") =>
       /\ IsValidDate(ret)
       /\ LocalDay(ret) = arg.in.nn
       /\ getMonth(ret) = arg.in.mm - 1
       /\ getFullYear(ret) = arg.in.yyyy
  /\ (Returns("parsePdfDateMmDdYyyy") /\ arg.in.shape = "both") =>
       /\ IsValidDate(ret)
       /\ LocalDay(ret) = arg.in.mm
       /\ getMonth(ret) = arg.in.nn - 1
       /\ getFullYear(ret) = arg.in.yyyy
  /\ (Returns("parsePdfDateMmDdYyyy") /\ arg.in.shape = "loose") => ret = NullDate

\* "02/07/2024" was read as 2 July by parseLedgerDate.
C15_Witness ==
  /\ Returns("parseLedgerDate")
  /\ arg.in.shape = "both"
  /\ arg.in.nn = 2
  /\ arg.in.mm = 7
  /\ LocalDay(ret) = 2
  /\ getMonth(ret) = 6

-----------------------------------------------------------------------------
(* Properties of dates under the process timezone                          *)

\* C17: under every process timezone a row whose DATE was resolved from a
\* spreadsheet serial by parseLedgerDate, or from a statement date by
\* parsePdfDateMmDdYyyy, is counted in the month of the calendar date the
\* serial or text denotes, and passes the year filter of that date's year.
C17_NoonSurvivesEveryZone ==
  (pc = "done" /\ arg.fn = "resolveDate") =>
    BucketFields(result, arg.in.m - 1) = <<Credit300.v, Debit200.v, 0>>

-----------------------------------------------------------------------------
(* Properties of the calls that hold a resource                            *)

\* C18: once chromium.launch has succeeded, browser.close() is called exactly
\* once before renderPdfFromHtml settles, whether newPage, setContent or pdf
\* resolves or rejects; once fs.mkdtemp has created the directory, fs.rm is
\* called on it before pdfBufferToText settles, whether writeFile or pdftotext
\* succeeds or fails, and the call settles with the result or the error of its
\* try/catch blocks also when fs.rm fails.  A call that never obtained the
\* resource releases nothing, and no release is called twice.
C18_ReleasedOnEveryExit ==
  /\ releases <= 1
  /\ resource = "held" => relPc # "settled"
  /\ relPc = "settled" =>
       /\ releases = (IF resource = "none" THEN 0 ELSE 1)
       /\ (job.fn = "pdfBufferToText" /\ resource # "none") => settlement = pending

\* pdfBufferToText settled with the text of pdftotext although fs.rm failed
C18_Witness ==
  /\ relPc = "settled"
  /\ job.fn = "pdfBufferToText"
  /\ releases = 1
  /\ resource = "release failed"
  /\ settlement.kind = "fulfilled"

-----------------------------------------------------------------------------
(* Properties of the loading entry points together                         *)

AllColumns == <<1, 2, 3, 4, 5, 6>>

\* The uploaded table has the six-column header and, after it, no row whose
\* CD cell is anything but blank.
NoCodedDataRow ==
  /\ \E i \in 1..Len(content.table) : content.table[i] = HeaderRowOf(AllColumns)
  /\ \A i \in 1..Len(content.table) :
       \/ content.table[i] = HeaderRowOf(AllColumns)
       \/ Len(content.table[i]) < Len(AllColumns)
       \/ content.table[i][1] = StrCell(<<" ">>)

\* The lines of StatementLines that open a block with a calendar date and a code.
DatedStartLines ==
  { <<"0","1","/","1","6","/","2","0","2","4"," ","O","R","-","1"," ","D","e","p","o","s","i","t">>,
    <<"0","2","/","0","5","/","2","0","2","4"," ","C","M","-","2","2"," ","C","a","s","h"," ","D","i","v","i","d","e","n","d">> }

NoLedgerRows == Thrown("No ledger rows found", <<>>)

\* C20: neither loadFmsecLedgerRowsFromBuffer (csv, xlsx and xls uploads) nor
\* parseFmsecLedgerRowsFromPdfText returns an empty row sequence: each returns
\* at least one row or fails with an error.  A table with the full header and
\* no data row with a non-blank CD, and a statement text without a line that
\* opens a dated block, both fail with "No ledger rows found".
C20_NeverEmptyRows ==
  /\ loadPc = "settled" => outcome.threw \/ Len(outcome.rows) >= 1
  /\ AdapterRan /\ NoCodedDataRow => outcome = NoLedgerRows
  /\ pdfPc = "done" => pdfOutcome.threw \/ Len(pdfOutcome.rows) >= 1
  /\ (pdfPc = "done" /\ \A i \in 1..Len(lines) : lines[i] \notin DatedStartLines)
       => pdfOutcome = NoLedgerRows

\* A csv upload of the full header and one data row with a blank CD has failed
\* with "No ledger rows found".
C20_Witness ==
  /\ loadPc = "settled"
  /\ filename = <<"l","e","d","g","e","r",".","c","s","v">>
  /\ ~content.empty
  /\ Len(content.table) = 2
  /\ content.table[1] = HeaderRowOf(AllColumns)
  /\ content.table[2][1] = StrCell(<<" ">>)
  /\ outcome = NoLedgerRows

====
